---- MODULE Spec2Model ----
(***************************************************************************)
(* The routing, caching and orchestration core of the onboarding copilot:  *)
(*   app/agents/coordinator.py      CoordinatorAgent                       *)
(*   app/services/intent_detector.py IntentDetector                        *)
(*   app/services/semantic_cache.py SemanticCacheService                   *)
(*   app/agents/orchestrator.py     OnboardingOrchestrator                 *)
(* Text is a sequence of one-character strings, so that lower(), strip(),  *)
(* substring tests and word-boundary regular expressions are computed.     *)
(***************************************************************************)
EXTENDS Integers, Sequences, FiniteSets, TLC

VARIABLES
  message,        \* the text handed to the router / the orchestrator
  prediction,     \* what router.predict(message) does: a prediction or a raise
  model_file,     \* whether the classifier artifact exists on disk
  router_loaded,  \* CoordinatorAgent._router_loaded
  router,         \* CoordinatorAgent.router is not None
  routing,        \* the dict returned by the last get_routing_decision
  keyword_dept,   \* the value returned by the last check_keywords
  detected,       \* the list returned by the last _detect_multiple_departments
  calls,          \* the number of get_routing_decision calls on the message
  cache,          \* the semantic_cache table: its rows in id order
  now,            \* datetime.utcnow(), in hours
  embedding_model,\* SemanticCacheService.embedding_model is not None
  ret,            \* what the last get_cached_response returned
  last_put,       \* per query hash, the payload of the last cache_response
  fresh,          \* hashes written since their department was last invalidated
  invalidated,    \* the departments invalidate_cache has been called for
  pc,             \* where the current process_message call stands
  requests,       \* the number of process_message calls so far
  handlers,       \* the fan-out tasks handed to asyncio.gather, in list order
  finished,       \* the fan-out tasks in the order they finished
  result,         \* the dict process_message returned
  pending,        \* the cache writes submitted to background threads
  lookup,         \* what the cache held for the message when it was looked up
  trace,          \* what the current call has run so far
  collection,     \* the chunks of the vector store collection, in insertion order
  bm25_index,     \* BM25Index.documents with their metadata, in list order
  relevance,      \* per chunk text, its distance and BM25 score for the query
  search_cache,   \* HybridSearchEngine._cache: key -> cached response
  search_response,\* what the last HybridSearchEngine.search returned
  retrieval,      \* what the last RAGRetriever.retrieve returned
  document,       \* the policy file handed to the ingestion: name and content
  chunks,         \* the list returned by the last chunk_text
  ingestion,      \* the last ingestion run and how it ended
  user_id,        \* the user of the current process_message call
  sessions,       \* the database sessions of concurrent get_cached_response calls
  handed,         \* the response object the last search that missed handed to
                  \* its caller, as that caller reads it now
  agent_responses,\* the responses handed to _combine_multi_agent_responses
  combined_text,  \* the text the last _combine_multi_agent_responses returned
  handler_response,\* the last department handler call: its retrieval's
                  \* confidence and the AgentResponse it returned
  query_history,  \* EscalationService._query_history: per user, the queries
  escalation,     \* the last EscalationService.evaluate call and its decision
  progress_response \* the last ProgressAgent.process call and how it ended

routing_vars == <<message, prediction, model_file, router_loaded, router,
                  routing, keyword_dept, detected, calls>>

cache_vars == <<cache, now, embedding_model, ret, last_put, fresh, invalidated>>

orch_vars == <<pc, requests, handlers, finished, result, pending, lookup, trace>>

rag_vars == <<collection, bm25_index, relevance, search_cache,
              search_response, retrieval, document, chunks, ingestion>>

caller_vars == <<user_id, sessions, handed>>

merge_vars == <<agent_responses, combined_text>>

escalation_vars == <<query_history, escalation>>

service_vars == <<merge_vars, handler_response, escalation_vars, progress_response>>

vars == <<routing_vars, cache_vars, orch_vars, rag_vars, caller_vars,
          service_vars>>

None == "None"

-----------------------------------------------------------------------------
(* Bounds *)

\* Longest message, in words, of the routing specification.
MaxWords == 3

\* Most rows of the semantic_cache table.
MaxEntries == 2

\* Most hits counted in the table.
MaxHits == 1

\* Most steps of the clock, each of cache_ttl_hours.
MaxTicks == 2

\* Most calls of process_message.
MaxRequests == 2

\* Most users making requests.
MaxUsers == 2

\* Most handler responses merged.
MaxResponses == 3

MaxDocs == 3

MaxEvaluations == 2

MaxTasks == 1

\* Most concurrent get_cached_response calls.
MaxSessions == 3

\* Most calls of get_routing_decision on one message.
MaxCalls == 2

\* Most pieces of a policy document.
MaxPieces == 4

\* The collection is not added to once it holds this many chunks.
MaxStored == 4

\* Most results asked of a search.
MaxResults == 2

\* Most entries of the search engine's cache.
MaxCached == 1

\* settings.chunk_size and settings.chunk_overlap, in characters, scaled to
\* the documents of the model.
chunk_size == 5
chunk_overlap == 3

-----------------------------------------------------------------------------
(* Characters and strings: str.lower, str.strip, `in`, re.search with \b *)

UpperCase == <<"A","B","C","D","E","F","G","H","I","J","K","L","M",
               "N","O","P","Q","R","S","T","U","V","W","X","Y","Z">>
LowerCase == <<"a","b","c","d","e","f","g","h","i","j","k","l","m",
               "n","o","p","q","r","s","t","u","v","w","x","y","z">>
DigitChars == {"0","1","2","3","4","5","6","7","8","9"}

Range(s) == {s[i] : i \in DOMAIN s}

\* The lower-case letter of each upper-case one.
LowerOf ==
  [c \in Range(UpperCase) |->
     LowerCase[CHOOSE i \in DOMAIN UpperCase : UpperCase[i] = c]]

LowerChar(c) == IF c \in DOMAIN LowerOf THEN LowerOf[c] ELSE c

\* str.lower()
lower(s) == [i \in 1..Len(s) |-> LowerChar(s[i])]

IsSpace(c) == c \in {" ", "\t", "\n"}

RECURSIVE lstrip(_)
lstrip(s) == IF s # <<>> /\ IsSpace(Head(s)) THEN lstrip(Tail(s)) ELSE s

RECURSIVE rstrip(_)
rstrip(s) ==
  IF s # <<>> /\ IsSpace(s[Len(s)]) THEN rstrip(SubSeq(s, 1, Len(s) - 1)) ELSE s

\* str.strip()
strip(s) == rstrip(lstrip(s))

\* The regular expression class \w (the ASCII part of it).
WordChars == Range(UpperCase) \cup Range(LowerCase) \cup DigitChars \cup {"_"}

IsWordChar(c) == c \in WordChars

OccursAt(kw, s, i) ==
  /\ i >= 1
  /\ i + Len(kw) - 1 <= Len(s)
  /\ s[i] = kw[1]
  /\ SubSeq(s, i, i + Len(kw) - 1) = kw

\* Python's `kw in s`.
Contains(kw, s) == \E i \in 1..Len(s) : OccursAt(kw, s, i)

\* \b before position i of s, i being the first character of a word.
BoundaryBefore(s, i) == i = 1 \/ ~IsWordChar(s[i - 1])

\* \b after position j of s, j being the last character of a word.
BoundaryAfter(s, j) == j = Len(s) \/ ~IsWordChar(s[j + 1])

\* re.search(r'\b' + re.escape(kw) + r'\b', s); every keyword starts and ends
\* with a word character.
SearchWord(kw, s) ==
  \E i \in 1..Len(s) :
    /\ OccursAt(kw, s, i)
    /\ BoundaryBefore(s, i)
    /\ BoundaryAfter(s, i + Len(kw) - 1)

\* re.search(r'\b' + kw, s): a word boundary before, none required after.
SearchWordStart(kw, s) ==
  \E i \in 1..Len(s) : OccursAt(kw, s, i) /\ BoundaryBefore(s, i)

\* re.match(kw + r'\b', s): anchored at the start.
MatchWordPrefix(kw, s) == OccursAt(kw, s, 1) /\ BoundaryAfter(s, Len(kw))

\* re.match(kw, s): anchored at the start, nothing required after.
MatchPrefix(kw, s) == OccursAt(kw, s, 1)

-----------------------------------------------------------------------------
(* The messages of the model: words of Vocabulary joined by single spaces. *)
(* A keyword or pattern of the source that needs a word outside Vocabulary *)
(* matches none of them; the tables below are those of the source, a    *)
(* \s+ between two words of a pattern written as one space.                *)

Vocabulary ==
    { <<"h","i">>,
      <<"l","a","p","t","o","p">>,
      <<"P","T","O">>,
      <<"m","y">>,
      <<"t","a","s","k">>,
      <<"f","i","n","i","s","h","e","d">>,
      <<"v","p","n">> }

RECURSIVE JoinWords(_)
JoinWords(ws) ==
  IF Len(ws) = 0 THEN <<>>
  ELSE IF Len(ws) = 1 THEN ws[1]
  ELSE ws[1] \o <<" ">> \o JoinWords(Tail(ws))

Texts(n) == {JoinWords(ws) : ws \in UNION {[1..k -> Vocabulary] : k \in 1..n}}

\* The messages sent to process_message.
m_laptop == <<"l","a","p","t","o","p">>

m_PTO == <<"P","T","O">>

m_pto == <<"p","t","o">>

m_hi == <<"h","i">>

m_my_task == <<"m","y"," ","t","a","s","k">>

m_vpn_PTO_badge == <<"v","p","n"," ","P","T","O"," ","b","a","d","g","e">>

RequestMessages ==
  {m_laptop, m_PTO, m_pto, m_hi, m_my_task, m_vpn_PTO_badge}

m_complaint == <<"c","o","m","p","l","a","i","n","t">>

\* The messages of the specification with several users.
UserMessages == {m_my_task, m_complaint, m_pto}

ModelledMessages == Texts(MaxWords) \cup RequestMessages \cup UserMessages

-----------------------------------------------------------------------------
(* CoordinatorAgent: keyword tables and routing rules *)

Departments == {"HR", "IT", "Security", "Finance", "Progress", "General"}

\* QuestionRouter.DEPARTMENTS: the classes of the classifier.
ClassifierClasses == {"Finance", "General", "HR", "IT", "Security"}

\* The key order of CoordinatorAgent.DEPARTMENT_KEYWORDS.
KeywordDeptOrder == <<"HR", "IT", "Security", "Finance", "Progress">>

DEPARTMENT_KEYWORDS ==
  [HR |->
    { <<"b","e","n","e","f","i","t","s">>,
      <<"i","n","s","u","r","a","n","c","e">>,
      <<"4","0","1","k">>,
      <<"p","t","o">>,
      <<"v","a","c","a","t","i","o","n">>,
      <<"s","i","c","k"," ","l","e","a","v","e">>,
      <<"p","a","r","e","n","t","a","l"," ","l","e","a","v","e">>,
      <<"m","a","t","e","r","n","i","t","y">>,
      <<"p","a","t","e","r","n","i","t","y">>,
      <<"p","r","o","b","a","t","i","o","n">>,
      <<"p","e","r","f","o","r","m","a","n","c","e"," ","r","e","v","i","e","w">>,
      <<"w","o","r","k","i","n","g"," ","h","o","u","r","s">>,
      <<"r","e","m","o","t","e"," ","w","o","r","k">>,
      <<"d","r","e","s","s"," ","c","o","d","e">>,
      <<"h","a","n","d","b","o","o","k">>,
      <<"h","r"," ","p","o","l","i","c","y">> },
   IT |->
    { <<"l","a","p","t","o","p">>,
      <<"c","o","m","p","u","t","e","r">>,
      <<"e","m","a","i","l">>,
      <<"s","l","a","c","k">>,
      <<"v","p","n">>,
      <<"p","a","s","s","w","o","r","d">>,
      <<"m","f","a">>,
      <<"t","w","o","-","f","a","c","t","o","r">>,
      <<"s","o","f","t","w","a","r","e">>,
      <<"i","n","s","t","a","l","l">>,
      <<"g","i","t","h","u","b">>,
      <<"j","i","r","a">>,
      <<"a","c","c","o","u","n","t">>,
      <<"w","i","f","i">>,
      <<"h","e","l","p"," ","d","e","s","k">>,
      <<"i","t"," ","s","u","p","p","o","r","t">>,
      <<"o","k","t","a">>,
      <<"e","q","u","i","p","m","e","n","t">>,
      <<"m","o","n","i","t","o","r">>,
      <<"d","e","v","i","c","e">>,
      <<"k","e","y","b","o","a","r","d">>,
      <<"m","o","u","s","e">>,
      <<"h","e","a","d","s","e","t">>,
      <<"p","r","i","n","t","e","r">> },
   Security |->
    { <<"s","e","c","u","r","i","t","y"," ","t","r","a","i","n","i","n","g">>,
      <<"n","d","a">>,
      <<"c","o","n","f","i","d","e","n","t","i","a","l">>,
      <<"d","a","t","a"," ","c","l","a","s","s","i","f","i","c","a","t","i","o","n">>,
      <<"p","h","i","s","h","i","n","g">>,
      <<"i","n","c","i","d","e","n","t">>,
      <<"b","a","d","g","e">>,
      <<"a","c","c","e","s","s"," ","c","o","n","t","r","o","l">>,
      <<"c","o","m","p","l","i","a","n","c","e">>,
      <<"s","o","c"," ","2">>,
      <<"g","d","p","r">>,
      <<"c","l","e","a","n"," ","d","e","s","k">>,
      <<"p","r","i","v","i","l","e","g","e","d"," ","a","c","c","e","s","s">> },
   Finance |->
    { <<"p","a","y","r","o","l","l">>,
      <<"p","a","y"," ","s","c","h","e","d","u","l","e">>,
      <<"e","x","p","e","n","s","e">>,
      <<"r","e","i","m","b","u","r","s","e","m","e","n","t">>,
      <<"c","o","r","p","o","r","a","t","e"," ","c","a","r","d">>,
      <<"t","r","a","v","e","l">>,
      <<"b","o","o","k","i","n","g">>,
      <<"p","e","r"," ","d","i","e","m">>,
      <<"w","-","4">>,
      <<"w","-","2">>,
      <<"d","i","r","e","c","t"," ","d","e","p","o","s","i","t">>,
      <<"e","x","p","e","n","s","i","f","y">>,
      <<"c","o","n","c","u","r">>,
      <<"p","u","r","c","h","a","s","e"," ","o","r","d","e","r">> },
   Progress |->
    { <<"t","a","s","k">>,
      <<"t","a","s","k","s">>,
      <<"p","r","o","g","r","e","s","s">>,
      <<"c","o","m","p","l","e","t","e","d">>,
      <<"f","i","n","i","s","h","e","d">>,
      <<"d","o","n","e">>,
      <<"c","h","e","c","k","l","i","s","t">>,
      <<"o","n","b","o","a","r","d","i","n","g"," ","p","r","o","g","r","e","s","s">>,
      <<"w","h","a","t","'","s"," ","n","e","x","t">>,
      <<"o","v","e","r","d","u","e">>,
      <<"m","a","r","k"," ","a","s"," ","d","o","n","e">>,
      <<"u","p","d","a","t","e"," ","s","t","a","t","u","s">> }]

\* CoordinatorAgent.CONFIDENCE_THRESHOLD, in hundredths.
CONFIDENCE_THRESHOLD == 60

\* The `matches` dict of check_keywords: per department the keywords found.
KeywordMatches(text) ==
  LET text_lower == lower(text)
  IN [d \in Range(KeywordDeptOrder) |->
        {kw \in DEPARTMENT_KEYWORDS[d] : SearchWord(kw, text_lower)}]

\* max(matches.keys(), key=lambda d: len(matches[d])): the first key, in
\* insertion order, among those with the most keywords.
BestDept(matches) ==
  LET hit  == {i \in DOMAIN KeywordDeptOrder : matches[KeywordDeptOrder[i]] # {}}
      top  == {i \in hit : \A j \in hit :
                 Cardinality(matches[KeywordDeptOrder[j]])
                   <= Cardinality(matches[KeywordDeptOrder[i]])}
      best == CHOOSE i \in top : \A j \in top : i <= j
  IN KeywordDeptOrder[best]

\* The keywords of the "strong progress" rule, tested with `in`.
StrongProgressKeywords ==
    { <<"m","y"," ","t","a","s","k">>,
      <<"m","y"," ","p","r","o","g","r","e","s","s">>,
      <<"c","o","m","p","l","e","t","e","d">>,
      <<"f","i","n","i","s","h","e","d">>,
      <<"m","a","r","k">> }

\* greeting_patterns[0]: ^(hi|hello|hey|good morning|good afternoon)\b
GreetingWords ==
    { <<"h","i">>,
      <<"h","e","l","l","o">>,
      <<"h","e","y">>,
      <<"g","o","o","d"," ","m","o","r","n","i","n","g">>,
      <<"g","o","o","d"," ","a","f","t","e","r","n","o","o","n">> }

\* greeting_patterns[1] and [2]: ^(thanks|thank you), ^(what should i do|...)
GreetingPrefixes ==
    { <<"t","h","a","n","k","s">>,
      <<"t","h","a","n","k"," ","y","o","u">>,
      <<"w","h","a","t"," ","s","h","o","u","l","d"," ","i"," ","d","o">>,
      <<"w","h","e","r","e"," ","d","o"," ","i"," ","s","t","a","r","t">>,
      <<"h","e","l","p"," ","m","e">> }

\* any(re.match(pattern, text.lower().strip()) for pattern in greeting_patterns)
IsGreeting(text) ==
  LET t == strip(lower(text))
  IN \/ \E w \in GreetingWords : MatchWordPrefix(w, t)
     \/ \E p \in GreetingPrefixes : MatchPrefix(p, t)

\* any(kw in text.lower() for kw in [...])
HasStrongProgressKeyword(text) ==
  LET text_lower == lower(text)
  IN \E kw \in StrongProgressKeywords : Contains(kw, text_lower)

\* What the three tests above give for each message of the model.  They
\* depend on the text alone, and TLC evaluates a constant once.
CoordinatorFacts ==
  [t \in ModelledMessages |->
     [matches  |-> KeywordMatches(t),
      greeting |-> IsGreeting(t),
      strong   |-> HasStrongProgressKeyword(t)]]

check_keywords_no_preference(text, ml_prediction) ==
  LET matches == CoordinatorFacts[text].matches
  IN IF \A d \in DOMAIN matches : matches[d] = {} THEN None
     ELSE BestDept(matches)

check_keywords(text, ml_prediction) ==
  LET matches == CoordinatorFacts[text].matches
  IN IF \A d \in DOMAIN matches : matches[d] = {} THEN None
     ELSE IF ml_prediction # None /\ ml_prediction \in DOMAIN matches
             /\ matches[ml_prediction] # {}
          THEN ml_prediction
     ELSE BestDept(matches)

\* A loader that marks the router loaded and only makes it available from the
\* next call on.
LoadRouterOnNextCall(loaded, has_router) ==
  <<TRUE, loaded>>

\* _load_router: get_router() builds a QuestionRouter, which only stores the
\* path of the artifact and opens it at the first predict; so the router is
\* set whether or not the artifact exists.  Yields <<router_loaded, router>>.
load_router(loaded, has_router) ==
  IF ~loaded THEN <<TRUE, TRUE>> ELSE <<loaded, has_router>>

\* A default decision that sends the message to HR.
DefaultRoutingToHR ==
  [predicted_department  |-> "General",
   prediction_confidence |-> 0,
   final_department      |-> "HR",
   was_overridden        |-> FALSE,
   override_reason       |-> None]

\* The `result` dict get_routing_decision starts from.
DefaultRouting ==
  [predicted_department  |-> "General",
   prediction_confidence |-> 0,
   final_department      |-> "General",
   was_overridden        |-> FALSE,
   override_reason       |-> None]

\* get_routing_decision after _load_router: has_router is `self.router`, pred
\* is what router.predict(text) does.
get_routing_decision(text, has_router, pred) ==
  LET r1 == IF has_router /\ ~pred.raises
            THEN [DefaultRouting EXCEPT
                    !.predicted_department  = pred.department,
                    !.prediction_confidence = pred.confidence,
                    !.final_department      = pred.department]
            ELSE DefaultRouting
      kw == check_keywords(text, r1.predicted_department)
      r2 == IF kw # None /\ kw = r1.predicted_department THEN r1
            ELSE IF kw # None /\ r1.prediction_confidence < CONFIDENCE_THRESHOLD
                 THEN [r1 EXCEPT !.final_department = kw,
                                 !.was_overridden   = TRUE,
                                 !.override_reason  = "Low ML confidence"]
            ELSE r1
      r3 == IF kw = "Progress" /\ CoordinatorFacts[text].strong
            THEN IF r2.predicted_department # "Progress"
                 THEN [r2 EXCEPT !.final_department = "Progress",
                                 !.was_overridden   = TRUE,
                                 !.override_reason  =
                                    "Strong progress/task keywords detected"]
                 ELSE [r2 EXCEPT !.final_department = "Progress"]
            ELSE r2
      r4 == IF CoordinatorFacts[text].greeting
            THEN IF r3.predicted_department # "Progress"
                 THEN [r3 EXCEPT !.final_department = "Progress",
                                 !.was_overridden   = TRUE,
                                 !.override_reason  =
                                    "Greeting or general query detected"]
                 ELSE [r3 EXCEPT !.final_department = "Progress"]
            ELSE r3
  IN r4

-----------------------------------------------------------------------------
(* IntentDetector.detect and OnboardingOrchestrator._detect_multiple_departments *)

\* The key order of DEPARTMENT_INDICATORS and of dept_keywords.
IndicatorDeptOrder == <<"HR", "IT", "Security", "Finance">>

\* DEPARTMENT_INDICATORS: one \b(...)\b alternation per department.
DEPARTMENT_INDICATORS ==
  [HR |->
    { <<"b","e","n","e","f","i","t">>,
      <<"i","n","s","u","r","a","n","c","e">>,
      <<"h","e","a","l","t","h">>,
      <<"d","e","n","t","a","l">>,
      <<"v","i","s","i","o","n">>,
      <<"4","0","1","k">>,
      <<"p","t","o">>,
      <<"l","e","a","v","e">>,
      <<"v","a","c","a","t","i","o","n">>,
      <<"s","i","c","k">>,
      <<"p","o","l","i","c","y">>,
      <<"h","a","n","d","b","o","o","k">>,
      <<"h","i","r","i","n","g">>,
      <<"t","e","r","m","i","n","a","t","i","o","n">>,
      <<"h","a","r","a","s","s","m","e","n","t">>,
      <<"d","i","v","e","r","s","i","t","y">>,
      <<"c","o","m","p","e","n","s","a","t","i","o","n">>,
      <<"s","a","l","a","r","y">>,
      <<"b","o","n","u","s">>,
      <<"r","e","v","i","e","w">> },
   IT |->
    { <<"l","a","p","t","o","p">>,
      <<"c","o","m","p","u","t","e","r">>,
      <<"e","m","a","i","l">>,
      <<"p","a","s","s","w","o","r","d">>,
      <<"v","p","n">>,
      <<"n","e","t","w","o","r","k">>,
      <<"w","i","f","i">>,
      <<"s","o","f","t","w","a","r","e">>,
      <<"h","a","r","d","w","a","r","e">>,
      <<"i","n","s","t","a","l","l">>,
      <<"a","c","c","e","s","s">>,
      <<"a","c","c","o","u","n","t">>,
      <<"l","o","g","i","n">>,
      <<"c","r","e","d","e","n","t","i","a","l","s">>,
      <<"p","r","i","n","t","e","r">>,
      <<"s","c","a","n","n","e","r">>,
      <<"m","o","n","i","t","o","r">>,
      <<"k","e","y","b","o","a","r","d">>,
      <<"m","o","u","s","e">>,
      <<"d","e","v","e","l","o","p","e","r">>,
      <<"c","o","d","e">>,
      <<"g","i","t">>,
      <<"i","d","e">> },
   Security |->
    { <<"s","e","c","u","r","i","t","y">>,
      <<"c","o","m","p","l","i","a","n","c","e">>,
      <<"n","d","a">>,
      <<"c","o","n","f","i","d","e","n","t","i","a","l">>,
      <<"d","a","t","a"," ","p","r","o","t","e","c","t","i","o","n">>,
      <<"g","d","p","r">>,
      <<"t","r","a","i","n","i","n","g">>,
      <<"b","a","d","g","e">>,
      <<"a","c","c","e","s","s"," ","c","o","n","t","r","o","l">>,
      <<"c","l","e","a","r","a","n","c","e">>,
      <<"i","n","c","i","d","e","n","t">>,
      <<"b","r","e","a","c","h">>,
      <<"p","o","l","i","c","y">> },
   Finance |->
    { <<"e","x","p","e","n","s","e">>,
      <<"r","e","i","m","b","u","r","s","e">>,
      <<"t","r","a","v","e","l">>,
      <<"b","u","d","g","e","t">>,
      <<"i","n","v","o","i","c","e">>,
      <<"p","a","y","m","e","n","t">>,
      <<"p","a","y","r","o","l","l">>,
      <<"t","a","x">>,
      <<"w","2">>,
      <<"d","i","r","e","c","t"," ","d","e","p","o","s","i","t">>,
      <<"b","a","n","k">>,
      <<"c","o","r","p","o","r","a","t","e"," ","c","a","r","d">> }]

\* INTENT_PATTERNS, by intent type.
IntentTypes == {"greeting", "thanks", "help", "task_update", "task_query",
                "complaint", "feedback", "clarification", "confirmation",
                "navigation"}

IntentWords ==
  [greeting |->
    { <<"h","i">>,
      <<"h","e","l","l","o">>,
      <<"h","e","y">>,
      <<"g","r","e","e","t","i","n","g","s">> },
   thanks |->
    { <<"t","h","a","n","k">>,
      <<"t","h","a","n","k","s">>,
      <<"t","h","a","n","k"," ","y","o","u">>,
      <<"a","p","p","r","e","c","i","a","t","e">>,
      <<"g","r","a","t","e","f","u","l">> },
   help |->
    { <<"h","e","l","p">>,
      <<"a","s","s","i","s","t">>,
      <<"s","u","p","p","o","r","t">>,
      <<"g","u","i","d","e">>,
      <<"h","o","w"," ","d","o"," ","i">> },
   complaint |->
    { <<"p","r","o","b","l","e","m">>,
      <<"i","s","s","u","e">>,
      <<"b","r","o","k","e","n">>,
      <<"n","o","t"," ","w","o","r","k","i","n","g">>,
      <<"e","r","r","o","r">>,
      <<"b","u","g">>,
      <<"f","r","u","s","t","r","a","t","e","d">> },
   feedback |->
    { <<"s","u","g","g","e","s","t">>,
      <<"f","e","e","d","b","a","c","k">>,
      <<"i","m","p","r","o","v","e">>,
      <<"b","e","t","t","e","r">>,
      <<"f","e","a","t","u","r","e">>,
      <<"r","e","q","u","e","s","t">> },
   clarification |->
    { <<"w","h","a","t"," ","d","o"," ","y","o","u"," ","m","e","a","n">>,
      <<"c","l","a","r","i","f","y">>,
      <<"e","x","p","l","a","i","n">>,
      <<"m","o","r","e"," ","d","e","t","a","i","l">>,
      <<"e","l","a","b","o","r","a","t","e">> },
   navigation |->
    { <<"w","h","e","r","e">>,
      <<"f","i","n","d">>,
      <<"l","o","c","a","t","e">>,
      <<"a","c","c","e","s","s">>,
      <<"g","e","t"," ","t","o">>,
      <<"n","a","v","i","g","a","t","e">> }]

\* \b(my|pending|incomplete|overdue)\s+task
TaskQueryPrefixes ==
    { <<"m","y"," ","t","a","s","k">>,
      <<"p","e","n","d","i","n","g"," ","t","a","s","k">>,
      <<"i","n","c","o","m","p","l","e","t","e"," ","t","a","s","k">>,
      <<"o","v","e","r","d","u","e"," ","t","a","s","k">> }

\* ^(yes|no|okay|ok|sure|correct|right|exactly|confirmed?)[\.\!\?]?$
ConfirmationWords ==
    { <<"y","e","s">>,
      <<"n","o">>,
      <<"o","k","a","y">>,
      <<"o","k">>,
      <<"s","u","r","e">>,
      <<"c","o","r","r","e","c","t">>,
      <<"r","i","g","h","t">>,
      <<"e","x","a","c","t","l","y">>,
      <<"c","o","n","f","i","r","m">>,
      <<"c","o","n","f","i","r","m","e","d">> }

\* _calculate_pattern_confidence(query, patterns) > 0 for intent type t.
IntentPatternMatches(t, q) ==
  \/ t \in DOMAIN IntentWords /\ \E w \in IntentWords[t] : SearchWord(w, q)
  \/ t = "task_query" /\ \E p \in TaskQueryPrefixes : SearchWordStart(p, q)
  \/ t = "confirmation"
       /\ \E w \in ConfirmationWords, e \in {<<>>, <<".">>, <<"!">>, <<"?">>} :
            q = w \o e

\* The intent types of detect(): every matched type (each has confidence
\* >= 0.7, above multi_intent_threshold), QUESTION when none matched.
DetectedIntentTypes(q) ==
  LET m == {t \in IntentTypes : IntentPatternMatches(t, q)}
  IN IF m = {} THEN {"question"} ELSE m

\* _detect_departments: each department has one pattern, so every match has
\* confidence 0.6 and the stable sort keeps the table order.
detect_departments(q) ==
  SelectSeq(IndicatorDeptOrder,
            LAMBDA d : \E w \in DEPARTMENT_INDICATORS[d] : SearchWord(w, q))

\* The departments carried by the primary and the secondary intents: the
\* QUESTION, HELP and NAVIGATION intents all carry departments[0][0].
IntentDepartments(message_) ==
  LET q  == strip(lower(message_))
      dd == detect_departments(q)
  IN IF dd # <<>> /\ DetectedIntentTypes(q) \cap {"question", "help", "navigation"} # {}
     THEN <<dd[1]>>
     ELSE <<>>

\* dept_keywords of _detect_multiple_departments (Latin-script keywords).
dept_keywords ==
  [HR |->
    { <<"b","e","n","e","f","i","t">>,
      <<"i","n","s","u","r","a","n","c","e">>,
      <<"h","e","a","l","t","h">>,
      <<"p","t","o">>,
      <<"v","a","c","a","t","i","o","n">>,
      <<"l","e","a","v","e">>,
      <<"p","o","l","i","c","y">>,
      <<"h","a","n","d","b","o","o","k">> },
   IT |->
    { <<"v","p","n">>,
      <<"l","a","p","t","o","p">>,
      <<"e","m","a","i","l">>,
      <<"p","a","s","s","w","o","r","d">>,
      <<"s","o","f","t","w","a","r","e">>,
      <<"a","c","c","o","u","n","t">>,
      <<"c","o","m","p","u","t","e","r">>,
      <<"n","e","t","w","o","r","k">> },
   Security |->
    { <<"s","e","c","u","r","i","t","y">>,
      <<"t","r","a","i","n","i","n","g">>,
      <<"c","o","m","p","l","i","a","n","c","e">>,
      <<"b","a","d","g","e">>,
      <<"n","d","a">> },
   Finance |->
    { <<"e","x","p","e","n","s","e">>,
      <<"p","a","y","r","o","l","l">>,
      <<"r","e","i","m","b","u","r","s","e">>,
      <<"t","a","x">>,
      <<"b","u","d","g","e","t">>,
      <<"t","r","a","v","e","l">> }]

\* `kw in message_lower or kw in message`
KeywordInMessage(kw, message_lower, message_) ==
  Contains(kw, message_lower) \/ Contains(kw, message_)

\* The loop over dept_keywords.items(), from its i-th item on.
RECURSIVE AddKeywordDepartments(_, _, _, _)
AddKeywordDepartments(departments, message_lower, message_, i) ==
  IF i > Len(IndicatorDeptOrder) THEN departments
  ELSE LET d == IndicatorDeptOrder[i]
       IN IF d \notin Range(departments)
             /\ \E kw \in dept_keywords[d] :
                  KeywordInMessage(kw, message_lower, message_)
          THEN AddKeywordDepartments(Append(departments, d), message_lower,
                                     message_, i + 1)
          ELSE AddKeywordDepartments(departments, message_lower, message_, i + 1)

detect_multiple_departments(message_) ==
  LET departments == AddKeywordDepartments(IntentDepartments(message_),
                                           lower(message_), message_, 1)
  IN IF departments # <<>> THEN departments ELSE <<"General">>

\* _detect_multiple_departments for each message of the model.
DetectedDepartments ==
  [t \in ModelledMessages |-> detect_multiple_departments(t)]


-----------------------------------------------------------------------------
(* SemanticCacheService over the semantic_cache table *)

\* Default cache_ttl_hours of SemanticCacheService.
cache_ttl_hours == 24

\* Default similarity_threshold of SemanticCacheService, in hundredths.
similarity_threshold == 92

\* .limit(100) of the semantic scan.
ScanLimit == 100

\* _normalize_query: query.lower().strip()
normalize_query(query) == strip(lower(query))

compute_hash_of_raw_query(query) == query

\* _compute_hash: SHA-256 of the normalized query.  The digest is taken to be
\* collision free: it is represented by the text it is computed from.
compute_hash(query) == normalize_query(query)

\* The queries of the cache specification and the vector the embedding model
\* gives for each normalized query.
q_pto == <<"p","t","o">>

q_PTO_padded == <<" ","P","T","O"," ">>

q_my_pto == <<"m","y"," ","p","t","o">>

q_vpn == <<"v","p","n">>

CacheQueries == {q_pto, q_PTO_padded, q_my_pto, q_vpn}

NoEmbedding == <<>>

embed_query(normalized) ==
  CASE normalized = q_pto    -> <<10, 0>>
    [] normalized = q_my_pto -> <<10, 1>>
    [] normalized = q_vpn    -> <<10, 5>>
    [] OTHER                 -> <<1, 10>>

\* _get_embedding: None without a model or when the model raises.
get_embedding(query, has_model, embed_ok) ==
  IF has_model /\ embed_ok THEN embed_query(normalize_query(query)) ELSE NoEmbedding

Dot(a, b) == a[1] * b[1] + a[2] * b[2]

\* _cosine_similarity(q, e) >= similarity_threshold, in integers:
\* dot / (|q| |e|) >= t / 100.
SimilarEnough(q, e) ==
  /\ Dot(q, e) > 0
  /\ Dot(q, e) * Dot(q, e) * 100 * 100
       >= similarity_threshold * similarity_threshold * Dot(q, q) * Dot(e, e)

\* _cosine_similarity(q, e1) > _cosine_similarity(q, e2), both positive.
MoreSimilar(q, e1, e2) ==
  Dot(q, e1) * Dot(q, e1) * Dot(e2, e2) > Dot(q, e2) * Dot(q, e2) * Dot(e1, e1)

\* Query.first(): the row of least id among the matching ones, 0 for None.
First(ids) == IF ids = {} THEN 0 ELSE CHOOSE i \in ids : \A j \in ids : i <= j

\* The exact tier's filter: query_hash, is_valid == True, expires_at > now.
ExactMatchIgnoringValidity(rows, query, t) ==
  First({i \in DOMAIN rows : /\ rows[i].query_hash = compute_hash(query)
                             /\ rows[i].expires_at > t})

ExactMatch(rows, query, t) ==
  First({i \in DOMAIN rows : /\ rows[i].query_hash = compute_hash(query)
                             /\ rows[i].is_valid
                             /\ rows[i].expires_at > t})

\* The loop over cache_entries: the first entry of greatest similarity among
\* those at or above the threshold; `best` is the best one so far, 0 for None.
RECURSIVE BestMatch(_, _, _, _)
BestMatch(rows, ids, q, best) ==
  IF ids = {} THEN best
  ELSE LET i == First(ids)
           e == rows[i].query_embedding
       IN IF /\ SimilarEnough(q, e)
             /\ (best = 0 \/ MoreSimilar(q, e, rows[best].query_embedding))
          THEN BestMatch(rows, ids \ {i}, q, i)
          ELSE BestMatch(rows, ids \ {i}, q, best)

\* The first ScanLimit ids of a set.
RECURSIVE Limit(_, _)
Limit(ids, n) ==
  IF ids = {} \/ n = 0 THEN {}
  ELSE {First(ids)} \cup Limit(ids \ {First(ids)}, n - 1)

\* The semantic tier: consulted with a model and an embedding of the query.
SemanticMatch(rows, query, t, has_model, embed_ok) ==
  LET q == get_embedding(query, has_model, embed_ok)
      entries == Limit({i \in DOMAIN rows : /\ rows[i].is_valid
                                           /\ rows[i].expires_at > t
                                           /\ rows[i].query_embedding # NoEmbedding},
                       ScanLimit)
  IN IF has_model /\ q # NoEmbedding THEN BestMatch(rows, entries, q, 0) ELSE 0

\* get_cached_response: the row it returns (0 for None) and the tier.
Lookup(rows, query, t, has_model, embed_ok) ==
  LET exact == ExactMatch(rows, query, t)
      sem   == SemanticMatch(rows, query, t, has_model, embed_ok)
  IN IF exact # 0 THEN [row |-> exact, cache_type |-> "exact"]
     ELSE [row |-> sem, cache_type |-> "semantic"]

\* The table after get_cached_response: hit_count += 1 on the row returned.
CountHit(rows, i) ==
  IF i = 0 THEN rows ELSE [rows EXCEPT ![i].hit_count = @ + 1]

\* The dict get_cached_response returns (None for a miss).  Two fields are
\* kept beside it: the query of the call and the query_hash of the row read.
NoResponse ==
  [response |-> <<>>, sources |-> <<>>, department |-> None,
   cache_type |-> None, hit_key |-> <<>>, query |-> <<>>]

CachedResponse(rows, found) ==
  IF found.row = 0 THEN NoResponse
  ELSE [response   |-> rows[found.row].response,
        sources    |-> rows[found.row].sources,
        department |-> rows[found.row].department,
        cache_type |-> found.cache_type,
        hit_key    |-> rows[found.row].query_hash,
        query      |-> <<>>]

\* cache_response: update the row of the query's hash, or add one.  A row
\* holds the columns the operations read; id is its place in the table, and
\* query_text, confidence_score, created_at and last_accessed are written but
\* read by none of them.
cache_response_insert_only(rows, query, response, sources, department, embedding, t) ==
  LET existing == First({i \in DOMAIN rows : rows[i].query_hash = compute_hash(query)})
  IN IF existing # 0 THEN rows
     ELSE Append(rows, [query_hash      |-> compute_hash(query),
                        query_embedding |-> embedding,
                        response        |-> response,
                        sources         |-> sources,
                        department      |-> department,
                        hit_count       |-> 0,
                        expires_at      |-> t + cache_ttl_hours,
                        is_valid        |-> TRUE])

cache_response(rows, query, response, sources, department, embedding, t) ==
  LET existing == First({i \in DOMAIN rows : rows[i].query_hash = compute_hash(query)})
  IN IF existing # 0
     THEN [rows EXCEPT ![existing].response        = response,
                       ![existing].sources         = sources,
                       ![existing].department      = department,
                       ![existing].query_embedding = embedding,
                       ![existing].expires_at      = t + cache_ttl_hours,
                       ![existing].is_valid        = TRUE]
     ELSE Append(rows, [query_hash      |-> compute_hash(query),
                        query_embedding |-> embedding,
                        response        |-> response,
                        sources         |-> sources,
                        department      |-> department,
                        hit_count       |-> 0,
                        expires_at      |-> t + cache_ttl_hours,
                        is_valid        |-> TRUE])

\* invalidate_cache: is_valid = False on the rows of the department, on every
\* row when the department is None (or empty).
invalidate_cache(rows, department) ==
  [i \in DOMAIN rows |->
     IF department = None \/ rows[i].department = department
     THEN [rows[i] EXCEPT !.is_valid = FALSE]
     ELSE rows[i]]

\* cleanup_expired: delete the rows with expires_at < now.
cleanup_expired(rows, t) == SelectSeq(rows, LAMBDA r : ~(r.expires_at < t))

-----------------------------------------------------------------------------
(* OnboardingOrchestrator: merging of fan-out responses and response dicts *)

\* The name of a department as text.
DeptText ==
  [HR       |-> <<"H","R">>,
   IT       |-> <<"I","T">>,
   Security |-> <<"S","e","c","u","r","i","t","y">>,
   Finance  |-> <<"F","i","n","a","n","c","e">>]

\* f"**{dept} Information:**\n"
SectionHeader(dept) ==
  <<"*","*">> \o DeptText[dept]
    \o <<" ","I","n","f","o","r","m","a","t","i","o","n",":","*","*","\n">>

\* "\n\n---\n\n"
SectionSeparator == <<"\n","\n","-","-","-","\n","\n">>

GreetingOpeners == {<<"h","i">>, <<"h","e","l","l","o">>, <<"h","e","y">>}

HappyToHelp ==
  {<<"i","'","d"," ","b","e"," ","h","a","p","p","y"," ","t","o"," ","h","e","l","p">>}

\* re.sub(r'^(opener)[^.!]*[.!]\s*', '', content, flags=re.IGNORECASE): an
\* opener at the start, everything up to the first '.' or '!' and the white
\* space after it are removed; without such a character nothing is.
StripOpening(content, openers) ==
  LET ends == {i \in DOMAIN content : content[i] \in {".", "!"}}
  IN IF (\E o \in openers : MatchPrefix(o, lower(content))) /\ ends # {}
     THEN lstrip(SubSeq(content, First(ends) + 1, Len(content)))
     ELSE content

\* The two substitutions applied to every response but the first part.
StripGreeting(content) == StripOpening(StripOpening(content, GreetingOpeners), HappyToHelp)

\* A loop that removes the greeting of the first response as well.
RECURSIVE CombinedPartsStrippingAll(_, _, _)
CombinedPartsStrippingAll(responses, i, parts) ==
  IF i > Len(responses) THEN parts
  ELSE LET content == StripGreeting(responses[i].content)
       IN IF strip(content) # <<>>
          THEN CombinedPartsStrippingAll(responses, i + 1,
                 Append(parts, SectionHeader(responses[i].department) \o strip(content)))
          ELSE CombinedPartsStrippingAll(responses, i + 1, parts)

\* The loop of _combine_multi_agent_responses: the parts built from
\* responses[i..], `parts` being the ones built so far.
RECURSIVE CombinedParts(_, _, _)
CombinedParts(responses, i, parts) ==
  IF i > Len(responses) THEN parts
  ELSE LET content == IF parts # <<>> THEN StripGreeting(responses[i].content)
                      ELSE responses[i].content
       IN IF strip(content) # <<>>
          THEN CombinedParts(responses, i + 1,
                 Append(parts, SectionHeader(responses[i].department) \o strip(content)))
          ELSE CombinedParts(responses, i + 1, parts)

\* sep.join(parts)
RECURSIVE JoinText(_, _)
JoinText(parts, sep) ==
  IF parts = <<>> THEN <<>>
  ELSE IF Len(parts) = 1 THEN parts[1]
  ELSE parts[1] \o sep \o JoinText(Tail(parts), sep)

\* _combine_multi_agent_responses(responses)
combine_multi_agent_responses(responses) ==
  IF Len(responses) = 1 THEN responses[1].content
  ELSE JoinText(CombinedParts(responses, 1, <<>>), SectionSeparator)

\* all_sources / all_task_updates: extend() over responses in list order.
RECURSIVE Extend(_, _)
Extend(responses, field) ==
  IF responses = <<>> THEN <<>>
  ELSE Head(responses)[field] \o Extend(Tail(responses), field)

RECURSIVE JoinWithSlash(_)
JoinWithSlash(departments) ==
  IF departments = <<>> THEN ""
  ELSE IF Len(departments) = 1 THEN departments[1]
  ELSE departments[1] \o "/" \o JoinWithSlash(Tail(departments))

\* ", ".join(detected_departments)
RECURSIVE JoinDepartments(_)
JoinDepartments(departments) ==
  IF departments = <<>> THEN ""
  ELSE IF Len(departments) = 1 THEN departments[1]
  ELSE departments[1] \o ", " \o JoinDepartments(Tail(departments))

\* total_time_ms: 0 in the error response, a measured time (written 1) elsewhere.
MeasuredTime == 1

\* The dict returned for a cache hit.
CachedResult(cached) ==
  [response      |-> cached.response,
   sources       |-> cached.sources,
   task_updates  |-> <<>>,
   routing       |-> [predicted_department  |-> cached.department,
                      prediction_confidence |-> 100,
                      final_department      |-> cached.department,
                      was_overridden        |-> FALSE,
                      is_cached             |-> TRUE,
                      cache_type            |-> cached.cache_type],
   agent         |-> "cache",
   total_time_ms |-> MeasuredTime]

\* The dict returned by the fan-out branch.
FanOutResult(departments, responses) ==
  [response      |-> combine_multi_agent_responses(responses),
   sources       |-> Extend(responses, "sources"),
   task_updates  |-> Extend(responses, "task_updates"),
   routing       |-> [predicted_department  |-> departments[1],
                      prediction_confidence |-> 80,
                      final_department      |-> JoinDepartments(departments),
                      was_overridden        |-> FALSE,
                      is_multi_intent       |-> TRUE,
                      departments           |-> departments],
   agent         |-> JoinDepartments(departments),
   total_time_ms |-> MeasuredTime]

\* A graph branch that reports was_overridden as the other branches do.
GraphResultNeverOverridden(decision, agent, output) ==
  [response      |-> output.content,
   sources       |-> output.sources,
   task_updates  |-> IF agent = "progress" THEN output.task_updates ELSE <<>>,
   routing       |-> [predicted_department  |-> decision.predicted_department,
                      prediction_confidence |-> decision.prediction_confidence,
                      final_department      |-> decision.final_department,
                      was_overridden        |-> FALSE,
                      is_multi_intent       |-> FALSE],
   agent         |-> agent,
   total_time_ms |-> MeasuredTime]

\* The dict returned by the graph branch from the final state of the graph.
GraphResult(decision, agent, output) ==
  [response      |-> output.content,
   sources       |-> output.sources,
   task_updates  |-> IF agent = "progress" THEN output.task_updates ELSE <<>>,
   routing       |-> [predicted_department  |-> decision.predicted_department,
                      prediction_confidence |-> decision.prediction_confidence,
                      final_department      |-> decision.final_department,
                      was_overridden        |-> decision.was_overridden,
                      is_multi_intent       |-> FALSE],
   agent         |-> agent,
   total_time_ms |-> MeasuredTime]

\* "I apologize, but I encountered an error processing your request. Please
\* try again or contact support."
ApologyText ==
  <<"I"," ","a","p","o","l","o","g","i","z","e",","," ","b","u","t",
     " ","I"," ","e","n","c","o","u","n","t","e","r","e","d"," ","a",
     "n"," ","e","r","r","o","r"," ","p","r","o","c","e","s","s","i",
     "n","g"," ","y","o","u","r"," ","r","e","q","u","e","s","t",".",
     " ","P","l","e","a","s","e"," ","t","r","y"," ","a","g","a","i",
     "n"," ","o","r"," ","c","o","n","t","a","c","t"," ","s","u","p",
     "p","o","r","t",".">>

\* The dict returned by the except branch.
ErrorResult ==
  [response      |-> ApologyText,
   sources       |-> <<>>,
   task_updates  |-> <<>>,
   routing       |-> <<>>,
   agent         |-> None,
   error         |-> "str(e)",
   total_time_ms |-> 0]

\* The node the conditional edge of the graph leads to.
GraphNode ==
  [HR |-> "hr", IT |-> "it", Security |-> "security", Finance |-> "finance",
   Progress |-> "progress", General |-> "progress"]

\* The arguments _cache_response hands to the background thread.
CacheWrite(query, answer, department) ==
  [query |-> query, response |-> answer.response, sources |-> answer.sources,
   department |-> department]

-----------------------------------------------------------------------------
(* DocumentIngestion: sections, cleaning and chunking of a policy document *)

NewLine == "\n"

\* str.split('\n')
RECURSIVE SplitLines(_, _)
SplitLines(s, line) ==
  IF s = <<>> THEN <<line>>
  ELSE IF Head(s) = NewLine THEN <<line>> \o SplitLines(Tail(s), <<>>)
  ELSE SplitLines(Tail(s), Append(line, Head(s)))

\* str.split('\n\n')
RECURSIVE SplitParagraphs(_, _)
SplitParagraphs(s, para) ==
  IF s = <<>> THEN <<para>>
  ELSE IF Len(s) >= 2 /\ s[1] = NewLine /\ s[2] = NewLine
       THEN <<para>> \o SplitParagraphs(SubSeq(s, 3, Len(s)), <<>>)
  ELSE SplitParagraphs(Tail(s), Append(para, Head(s)))

\* The length of the run of the character c that s starts with.
RECURSIVE RunLength(_, _)
RunLength(s, c) ==
  IF s # <<>> /\ Head(s) = c THEN 1 + RunLength(Tail(s), c) ELSE 0

\* re.sub of c{least,} by `keep` copies of c.
RECURSIVE CollapseRuns(_, _, _, _)
CollapseRuns(s, c, least, keep) ==
  IF s = <<>> THEN <<>>
  ELSE LET n == RunLength(s, c)
       IN IF n >= least
          THEN [i \in 1..keep |-> c]
                 \o CollapseRuns(SubSeq(s, n + 1, Len(s)), c, least, keep)
          ELSE IF n > 0
          THEN SubSeq(s, 1, n)
                 \o CollapseRuns(SubSeq(s, n + 1, Len(s)), c, least, keep)
          ELSE <<Head(s)>> \o CollapseRuns(Tail(s), c, least, keep)

\* The length of the run of "-" and ":" that s starts with.
RECURSIVE RuleLength(_)
RuleLength(s) ==
  IF s # <<>> /\ Head(s) \in {"-", ":"} THEN 1 + RuleLength(Tail(s)) ELSE 0

\* re.sub(r'\|[-:]+\|', '', text)
RECURSIVE RemoveTableSeparators(_)
RemoveTableSeparators(s) ==
  IF s = <<>> THEN <<>>
  ELSE LET n == RuleLength(Tail(s))
       IN IF Head(s) = "|" /\ n >= 1 /\ Len(s) >= n + 2 /\ s[n + 2] = "|"
          THEN RemoveTableSeparators(SubSeq(s, n + 3, Len(s)))
          ELSE <<Head(s)>> \o RemoveTableSeparators(Tail(s))

\* DocumentIngestion.clean_text
clean_text(text) ==
  strip(RemoveTableSeparators(
          CollapseRuns(CollapseRuns(text, NewLine, 3, 2), " ", 2, 1)))

\* re.match(r'^(#{1,4})\s+(.+)$', line): one to four "#", white space, and at
\* least one more character.
IsHeader(line) ==
  LET n == RunLength(line, "#")
  IN n \in 1..4 /\ Len(line) >= n + 2 /\ IsSpace(line[n + 1])

\* header_match.group(2).strip()
HeaderTitle(line) == strip(SubSeq(line, RunLength(line, "#") + 1, Len(line)))

NoSection == [title |-> <<>>, content |-> <<>>]

\* The loop of extract_sections over the lines left, with the section being
\* collected and the sections saved so far.
RECURSIVE SectionsFrom(_, _, _)
SectionsFrom(lines, current_section, sections) ==
  LET saved == IF strip(current_section.content) # <<>>
               THEN Append(sections, current_section)
               ELSE sections
  IN IF lines = <<>> THEN saved
     ELSE LET line == Head(lines)
          IN IF IsHeader(line)
             THEN SectionsFrom(Tail(lines),
                               [title   |-> HeaderTitle(line),
                                content |-> <<"#", " ">> \o HeaderTitle(line)
                                              \o <<NewLine, NewLine>>],
                               saved)
             ELSE SectionsFrom(Tail(lines),
                               [current_section EXCEPT
                                  !.content = @ \o line \o <<NewLine>>],
                               sections)

\* DocumentIngestion.extract_sections
extract_sections(content) == SectionsFrom(SplitLines(content, <<>>), NoSection, <<>>)

\* current_chunk[-self.chunk_overlap:]
Overlap(current_chunk) ==
  IF Len(current_chunk) <= chunk_overlap THEN current_chunk
  ELSE SubSeq(current_chunk, Len(current_chunk) - chunk_overlap + 1,
              Len(current_chunk))

\* The paragraph loop of chunk_text: the texts of the chunks of one large
\* section, from the paragraphs left, the chunk being packed and the texts
\* emitted so far.
RECURSIVE PackParagraphs(_, _, _)
PackParagraphs(paragraphs, current_chunk, texts) ==
  IF paragraphs = <<>>
  THEN IF strip(current_chunk) # <<>> THEN Append(texts, strip(current_chunk))
       ELSE texts
  ELSE LET para == Head(paragraphs)
       IN IF Len(current_chunk) + Len(para) <= chunk_size
          THEN PackParagraphs(Tail(paragraphs),
                              current_chunk \o para \o <<NewLine, NewLine>>,
                              texts)
          ELSE PackParagraphs(Tail(paragraphs),
                              Overlap(current_chunk) \o para
                                \o <<NewLine, NewLine>>,
                              IF current_chunk # <<>>
                              THEN Append(texts, strip(current_chunk))
                              ELSE texts)

\* The texts of the chunks chunk_text makes of one section.
SectionTexts(section) ==
  LET section_text == clean_text(section.content)
  IN IF section_text = <<>> THEN <<>>
     ELSE IF Len(section_text) <= chunk_size THEN <<section_text>>
     ELSE PackParagraphs(SplitParagraphs(section_text, <<>>), <<>>, <<>>)

\* The section loop of chunk_text; chunk_idx is the number of chunks so far.
RECURSIVE ChunksOf(_, _, _)
ChunksOf(sections, metadata, done) ==
  IF sections = <<>> THEN done
  ELSE LET texts == SectionTexts(Head(sections))
           new   == [i \in 1..Len(texts) |->
                       [text        |-> texts[i],
                        chunk_id    |-> <<metadata.filename, Len(done) + i - 1>>,
                        department  |-> metadata.department,
                        section     |-> Head(sections).title,
                        chunk_index |-> Len(done) + i - 1]]
       IN ChunksOf(Tail(sections), metadata, done \o new)

\* DocumentIngestion.chunk_text
chunk_text(text, metadata) == ChunksOf(extract_sections(text), metadata, <<>>)

\* DocumentIngestion.DEPARTMENT_MAPPING, by file stem.
DEPARTMENT_MAPPING ==
  [hr_policies |-> "HR", it_policies |-> "IT",
   security_policies |-> "Security", finance_policies |-> "Finance"]

\* load_document: the metadata of a policy file.
load_document(file) ==
  [filename   |-> file.stem \o ".md",
   department |-> IF file.stem \in DOMAIN DEPARTMENT_MAPPING
                  THEN DEPARTMENT_MAPPING[file.stem] ELSE "General"]

\* VectorStoreService.add_documents when the write goes through: the chunks
\* are appended to the collection, a chunk whose id is already stored being
\* left as it is stored.
add_documents(stored, new) ==
  LET ids == {stored[i].chunk_id : i \in DOMAIN stored}
      IsNew(c) == c.chunk_id \notin ids
  IN stored \o SelectSeq(new, IsNew)

\* DocumentIngestion.ingest_document on a collection: the collection after it.
ingest_document(stored, file) ==
  add_documents(stored, chunk_text(file.content, load_document(file)))

\* DocumentIngestion.ingest_all_policies over the files of the directory.
RECURSIVE ingest_all_policies(_, _)
ingest_all_policies(stored, policy_files) ==
  IF policy_files = <<>> THEN stored
  ELSE ingest_all_policies(ingest_document(stored, Head(policy_files)),
                           Tail(policy_files))

-----------------------------------------------------------------------------
(* The cache service driven through its four operations *)

Confidences == {59, 60}

NoPrediction == [raises |-> TRUE, department |-> "General", confidence |-> 0]

Predictions ==
  {NoPrediction}
  \cup {[raises |-> FALSE, department |-> d, confidence |-> c] :
          d \in ClassifierClasses, c \in Confidences}

NoRouting == [DefaultRouting EXCEPT !.final_department = "unset"]

CacheDepartments == {"HR", "IT"}

\* The (response, sources, department) a cache_response call is given.
CacheWrites ==
  {[response |-> <<"o","k">>, sources |-> <<>>, department |-> "HR"],
   [response |-> <<"n","o">>, sources |-> <<"hr_policies.md">>, department |-> "HR"],
   [response |-> <<"n","o">>, sources |-> <<"it_policies.md">>, department |-> "IT"]}

NoReturn == [NoResponse EXCEPT !.cache_type = "no call"]

NoPuts == [k \in {} |-> NoResponse]

NoResult == [none |-> TRUE]

NoRow == [query_hash |-> <<>>]

NoLookup == [entry |-> NoRow, read |-> "none", close |-> "none"]

NoTrace ==
  [detection |-> FALSE, coordinator |-> FALSE, started |-> <<>>,
   wrote |-> FALSE, failure |-> "none"]

NoSearchResponse == [results |-> <<>>, cache_hit |-> FALSE, k |-> 0, raised |-> FALSE]

NoRetrieval == [documents |-> <<>>, hybrid |-> FALSE, raised |-> FALSE, k |-> 0]

NoIngestion == [run |-> "none", ended |-> "none"]

NoDocument == [stem |-> "none", content |-> <<>>]

\* The state of the retrieval and ingestion variables where they are not
\* exercised.
RagIdle ==
  /\ collection = <<>>
  /\ bm25_index = <<>>
  /\ relevance = <<>>
  /\ search_cache = <<>>
  /\ search_response = NoSearchResponse
  /\ retrieval = NoRetrieval
  /\ document = NoDocument
  /\ chunks = <<>>
  /\ ingestion = NoIngestion

\* No user has made a request.
NoUser == 0

\* The state of the caller variables where no request and no concurrent cache
\* read is made.
NoHanded == [key |-> <<>>, shared |-> FALSE]

CallerIdle ==
  /\ user_id = NoUser
  /\ sessions = <<>>
  /\ handed = NoHanded

NoCombined == [called |-> FALSE, text |-> <<>>]

NoHandlerResponse == [called |-> FALSE]

NoDecision == [called |-> FALSE]

NoProgressResponse == [called |-> FALSE]

MergeIdle ==
  /\ agent_responses = <<>>
  /\ combined_text = NoCombined

HandlerIdle == handler_response = NoHandlerResponse

EscalationIdle ==
  /\ query_history = <<>>
  /\ escalation = NoDecision

ProgressIdle == progress_response = NoProgressResponse

\* The state of the service variables where no service is called on its own.
ServiceIdle ==
  /\ MergeIdle
  /\ HandlerIdle
  /\ EscalationIdle
  /\ ProgressIdle

\* The state of the orchestrator variables where no request is made.
OrchIdle ==
  /\ pc = "idle"
  /\ requests = 0
  /\ handlers = <<>>
  /\ finished = <<>>
  /\ result = NoResult
  /\ pending = {}
  /\ lookup = NoLookup
  /\ trace = NoTrace

\* The state of the cache variables where the cache is not exercised.
CacheIdle ==
  /\ cache = <<>>
  /\ now = 0
  /\ embedding_model = FALSE
  /\ ret = NoReturn
  /\ last_put = NoPuts
  /\ fresh = {}
  /\ invalidated = {}

RoutingIdle ==
  /\ message = <<>>
  /\ model_file = FALSE
  /\ prediction = NoPrediction
  /\ router_loaded = FALSE
  /\ router = FALSE
  /\ routing = NoRouting
  /\ keyword_dept = "unset"
  /\ detected = <<>>
  /\ calls = 0

CacheInit ==
  /\ cache = <<>>
  /\ now = 0
  /\ embedding_model \in BOOLEAN
  /\ ret = NoReturn
  /\ last_put = NoPuts
  /\ fresh = {}
  /\ invalidated = {}
  /\ RoutingIdle
  /\ OrchIdle
  /\ CallerIdle
  /\ ServiceIdle
  /\ RagIdle

RECURSIVE TotalHits(_)
TotalHits(rows) ==
  IF rows = <<>> THEN 0 ELSE Head(rows).hit_count + TotalHits(Tail(rows))

\* embedding_model.embed_query returns or raises; without a model it is not called.
EmbedOutcomes == IF embedding_model THEN BOOLEAN ELSE {FALSE}

Hashes(rows) == {rows[i].query_hash : i \in DOMAIN rows}

\* cache_service.cache_response(query, response, sources, department).  The
\* embedding model, where there is one, embeds the queries that are written.
CacheResponse ==
  \E query \in CacheQueries, payload \in CacheWrites :
    /\ compute_hash(query) \in Hashes(cache) \/ Len(cache) < MaxEntries
    /\ cache' = cache_response(cache, query, payload.response, payload.sources,
                               payload.department,
                               get_embedding(query, embedding_model, TRUE), now)
    /\ last_put' = [k \in DOMAIN last_put \cup {strip(lower(query))} |->
                      IF k = strip(lower(query)) THEN payload ELSE last_put[k]]
    /\ fresh' = fresh \cup {strip(lower(query))}
    /\ ret' = NoReturn
    /\ UNCHANGED <<now, embedding_model, invalidated>>
    /\ UNCHANGED <<routing_vars, orch_vars, rag_vars, caller_vars, service_vars>>

\* cache_service.get_cached_response(query)
GetCachedResponse ==
  \E query \in CacheQueries, embed_ok \in EmbedOutcomes :
    LET found == Lookup(cache, query, now, embedding_model, embed_ok)
    IN /\ found.row # 0 => TotalHits(cache) < MaxHits
       /\ cache' = CountHit(cache, found.row)
       /\ ret' = [CachedResponse(cache, found) EXCEPT !.query = query]
       /\ UNCHANGED <<now, embedding_model, last_put, fresh, invalidated>>
       /\ UNCHANGED <<routing_vars, orch_vars, rag_vars, caller_vars, service_vars>>

\* cache_service.invalidate_cache(department)
InvalidateCache ==
  \E department \in CacheDepartments \cup {None} :
    /\ cache' = invalidate_cache(cache, department)
    /\ invalidated' = invalidated \cup
                        (IF department = None THEN CacheDepartments ELSE {department})
    /\ fresh' = fresh \ {cache[i].query_hash :
                           i \in {j \in DOMAIN cache :
                                    department \in {None, cache[j].department}}}
    /\ ret' = NoReturn
    /\ UNCHANGED <<now, embedding_model, last_put>>
    /\ UNCHANGED <<routing_vars, orch_vars, rag_vars, caller_vars, service_vars>>

\* cache_service.cleanup_expired()
CleanupExpired ==
  /\ cache' = cleanup_expired(cache, now)
  /\ fresh' = fresh \cap Hashes(cache')
  /\ last_put' = [k \in DOMAIN last_put \cap Hashes(cache') |-> last_put[k]]
  /\ ret' = NoReturn
  /\ UNCHANGED <<now, embedding_model, invalidated>>
  /\ UNCHANGED <<routing_vars, orch_vars, rag_vars, caller_vars, service_vars>>

\* Time passes: cache_ttl_hours at a step.  The clock is read by the cache
\* check and by the cache operations only, so that the time that passes during
\* a process_message call is let pass before or after it.
Tick ==
  /\ pc \in {"idle", "returned", "raised"}
  /\ now < MaxTicks * cache_ttl_hours
  /\ now' = now + cache_ttl_hours
  /\ ret' = NoReturn
  /\ UNCHANGED <<cache, embedding_model, last_put, fresh, invalidated>>
  /\ UNCHANGED <<routing_vars, orch_vars, rag_vars, caller_vars, service_vars>>

CacheNext ==
  CacheResponse \/ GetCachedResponse \/ InvalidateCache \/ CleanupExpired \/ Tick

SpecCache == CacheInit /\ [][CacheNext]_vars

-----------------------------------------------------------------------------
(* _combine_multi_agent_responses on the responses of up to MaxResponses    *)
(* department handlers                                                       *)

\* The contents a handler may have answered with: a plain answer, a greeting
\* before the answer, a greeting alone, both openers before the answer, a
\* blank text.
MergeContents ==
  { <<"o","k",".">>,
    <<"H","i","!"," ","o","k">>,
    <<"H","e","y","!">>,
    <<"h","e","l","l","o",","," ","y","o","u",".",
      " ","I","'","d"," ","b","e"," ","h","a","p","p","y"," ","t","o",
      " ","h","e","l","p","!"," ","n","o">>,
    <<" ">> }

\* The lists of responses of distinct departments, in the order detected.
ResponseLists ==
  {l \in UNION {[1..n -> [department : DOMAIN DeptText, content : MergeContents]] :
                  n \in 1..MaxResponses} :
     \A i, j \in DOMAIN l : l[i].department = l[j].department => i = j}

MergeInit ==
  /\ agent_responses \in ResponseLists
  /\ combined_text = NoCombined
  /\ HandlerIdle
  /\ EscalationIdle
  /\ ProgressIdle
  /\ user_id = NoUser
  /\ handed = NoHanded
  /\ sessions = <<>>
  /\ RoutingIdle
  /\ CacheIdle
  /\ OrchIdle
  /\ RagIdle

\* _combine_multi_agent_responses(responses, user_name, original_message)
CombineMultiAgentResponses ==
  /\ ~combined_text.called
  /\ combined_text' = [called |-> TRUE,
                       text   |-> combine_multi_agent_responses(agent_responses)]
  /\ UNCHANGED <<agent_responses, handler_response, escalation_vars, progress_response>>
  /\ UNCHANGED <<routing_vars, cache_vars, orch_vars, rag_vars, caller_vars>>

MergeNext == CombineMultiAgentResponses

SpecMerge == MergeInit /\ [][MergeNext]_vars

-----------------------------------------------------------------------------
(* get_cached_response called concurrently, each call by a                  *)
(* SemanticCacheService on a database session of its own.  A session loads *)
(* the row with its query; hit_count += 1 is computed on the loaded object  *)
(* and the commit writes the computed value to the row.                     *)

Sessions == 1..MaxSessions

NewSession == [at |-> "begin", query |-> <<>>, row |-> 0, hit_count |-> 0]

\* One entry has been written; no call has started.
SessionsInit ==
  /\ \E query \in {q_pto, q_vpn}, payload \in CacheWrites :
       /\ cache = cache_response(<<>>, query, payload.response, payload.sources,
                                 payload.department,
                                 get_embedding(query, FALSE, TRUE), 0)
       /\ last_put = [k \in {compute_hash(query)} |-> payload]
       /\ fresh = {compute_hash(query)}
  /\ now = 0
  /\ embedding_model = FALSE
  /\ ret = NoReturn
  /\ invalidated = {}
  /\ user_id = NoUser
  /\ handed = NoHanded
  /\ sessions = [s \in Sessions |-> NewSession]
  /\ ServiceIdle
  /\ RoutingIdle
  /\ OrchIdle
  /\ RagIdle

\* The UPDATE a session's commit sends for the row it loaded: the value of
\* hit_count it computed from what it loaded.
commit_hit(rows, i, loaded_hit_count) ==
  [rows EXCEPT ![i].hit_count = loaded_hit_count + 1]

\* get_cached_response(query) in session s, up to the row its query returns:
\* None ends the call (no embedding model), a row is loaded into the session.
SessionQuery(s) ==
  \E query \in CacheQueries :
    LET found == Lookup(cache, query, now, embedding_model, FALSE)
    IN /\ sessions[s].at = "begin"
       /\ sessions' = [sessions EXCEPT ![s] =
                         [at        |-> IF found.row = 0 THEN "returned" ELSE "loaded",
                          query     |-> query,
                          row       |-> found.row,
                          hit_count |-> IF found.row = 0 THEN 0
                                        ELSE cache[found.row].hit_count]]
       /\ ret' = IF found.row = 0
                 THEN [CachedResponse(cache, found) EXCEPT !.query = query]
                 ELSE ret
       /\ UNCHANGED <<cache, now, embedding_model, last_put, fresh, invalidated>>
       /\ UNCHANGED <<routing_vars, orch_vars, rag_vars, user_id, handed, service_vars>>

\* get_cached_response in session s from the hit on: hit_count += 1,
\* last_accessed, commit, and the dict is returned.
SessionCommit(s) ==
  /\ sessions[s].at = "loaded"
  /\ cache' = commit_hit(cache, sessions[s].row, sessions[s].hit_count)
  /\ ret' = [CachedResponse(cache, [row |-> sessions[s].row, cache_type |-> "exact"])
               EXCEPT !.query = sessions[s].query]
  /\ sessions' = [sessions EXCEPT ![s].at = "returned"]
  /\ UNCHANGED <<now, embedding_model, last_put, fresh, invalidated>>
  /\ UNCHANGED <<routing_vars, orch_vars, rag_vars, user_id, handed, service_vars>>

SessionsNext ==
  \/ \E s \in Sessions : SessionQuery(s)
  \/ \E s \in Sessions : SessionCommit(s)
  \/ Tick

SpecSessions == SessionsInit /\ [][SessionsNext]_vars

-----------------------------------------------------------------------------
(* cache_response called concurrently, each call by a SemanticCacheService *)
(* on a database session of its own.  A call selects the row of the hash,  *)
(* then commits an UPDATE of the row it found or an INSERT of a new row;   *)
(* query_hash is a unique column, so the INSERT of a hash that another     *)
(* session has committed in between fails and the commit raises.           *)

WriterQueries == {q_pto, q_PTO_padded, q_vpn}

NoWrite == [response |-> <<>>, sources |-> <<>>, department |-> "HR"]

NewWriter == [at |-> "begin", query |-> <<>>, write |-> NoWrite, existing |-> 0]

\* The table is empty or holds one entry; no call has started.
WritersInit ==
  /\ \E payload \in CacheWrites :
       cache \in {<<>>, cache_response(<<>>, q_vpn, payload.response, payload.sources,
                                       payload.department,
                                       get_embedding(q_vpn, FALSE, TRUE), 0)}
  /\ now = 0
  /\ embedding_model = FALSE
  /\ ret = NoReturn
  /\ last_put = NoPuts
  /\ fresh = {}
  /\ invalidated = {}
  /\ user_id = NoUser
  /\ handed = NoHanded
  /\ sessions = [s \in Sessions |-> NewWriter]
  /\ ServiceIdle
  /\ RoutingIdle
  /\ OrchIdle
  /\ RagIdle

\* Column(String(64), unique=True): the committed table has a row of the hash.
HashTaken(rows, query) ==
  \E i \in DOMAIN rows : rows[i].query_hash = compute_hash(query)

\* cache_response(query, response, ...) in session s, up to the row its
\* query for an existing entry returns (0: none).
WriterSelect(s) ==
  \E query \in WriterQueries, payload \in CacheWrites :
    /\ sessions[s].at = "begin"
    /\ sessions' = [sessions EXCEPT ![s] =
                      [at       |-> "selected",
                       query    |-> query,
                       write    |-> payload,
                       existing |-> First({i \in DOMAIN cache :
                                            cache[i].query_hash = compute_hash(query)})]]
    /\ UNCHANGED <<cache_vars, routing_vars, orch_vars, rag_vars, user_id, handed, service_vars>>

\* cache_response in session s from the select on: the fields are set on the
\* existing row, or a new row is added, and the commit sends it.  The INSERT
\* of a hash the table holds by now violates the unique constraint: commit
\* raises IntegrityError, which cache_response does not catch.
WriterCommit(s) ==
  /\ sessions[s].at = "selected"
  /\ IF sessions[s].existing = 0 /\ HashTaken(cache, sessions[s].query)
     THEN /\ sessions' = [sessions EXCEPT ![s].at = "raised"]
          /\ cache' = cache
     ELSE /\ sessions' = [sessions EXCEPT ![s].at = "returned"]
          /\ cache' = cache_response(cache, sessions[s].query,
                                     sessions[s].write.response,
                                     sessions[s].write.sources,
                                     sessions[s].write.department,
                                     get_embedding(sessions[s].query, FALSE, TRUE), now)
  /\ UNCHANGED <<now, embedding_model, ret, last_put, fresh, invalidated>>
  /\ UNCHANGED <<routing_vars, orch_vars, rag_vars, user_id, handed, service_vars>>

WritersNext ==
  \/ \E s \in Sessions : WriterSelect(s)
  \/ \E s \in Sessions : WriterCommit(s)

SpecWriters == WritersInit /\ [][WritersNext]_vars

-----------------------------------------------------------------------------
(* The department handlers (HRAgent, ITAgent, SecurityAgent, FinanceAgent) *)
(* called on their own.  A retrieval is the list of the combined scores of  *)
(* its documents, best first, in hundredths; a confidence score is in       *)
(* thousandths.                                                             *)

ScoreValues == {12, 48, 72, 96}

ScoreLists ==
  {scores \in UNION {[1..n -> ScoreValues] : n \in 0..MaxDocs} :
     \A i \in 1..(Len(scores) - 1) : scores[i] >= scores[i + 1]}

HIGH_CONFIDENCE_THRESHOLD == 700

MEDIUM_CONFIDENCE_THRESHOLD == 400

MIN_DOCS_FOR_HIGH_CONFIDENCE == 2

RECURSIVE sum(_)
sum(scores) == IF scores = <<>> THEN 0 ELSE Head(scores) + sum(Tail(scores))

min(a, b) == IF a <= b THEN a ELSE b

\* RAGRetriever.calculate_confidence: 0.5 * top + 0.3 * avg + 0.2 * min(1, n / 2)
confidence_score_of(scores) ==
  5 * scores[1] + (3 * sum(scores)) \div Len(scores)
    + (200 * min(MIN_DOCS_FOR_HIGH_CONFIDENCE, Len(scores))) \div MIN_DOCS_FOR_HIGH_CONFIDENCE

calculate_confidence(scores) ==
  IF scores = <<>> THEN [confidence |-> "none", confidence_score |-> 0]
  ELSE [confidence       |-> IF confidence_score_of(scores) >= HIGH_CONFIDENCE_THRESHOLD
                             THEN "high"
                             ELSE IF confidence_score_of(scores) >= MEDIUM_CONFIDENCE_THRESHOLD
                                  THEN "medium"
                                  ELSE "low",
        confidence_score |-> confidence_score_of(scores)]

\* RAGRetriever.answer: the RAGResponse carries what calculate_confidence
\* gave for the retrieval, and the sources of its documents.
retriever_answer(scores) ==
  [docs_retrieved   |-> Len(scores),
   confidence       |-> calculate_confidence(scores).confidence,
   confidence_score |-> calculate_confidence(scores).confidence_score]

\* AgentResponse(content, sources, metadata): the dataclass fills the fields
\* the constructor call does not pass with their defaults.
AgentResponse(docs_retrieved) ==
  [docs_retrieved   |-> docs_retrieved,
   confidence       |-> "medium",
   confidence_score |-> 500]

HandlerDepartments == {"HR", "IT", "Security", "Finance"}

HandlersInit ==
  /\ handler_response = NoHandlerResponse
  /\ MergeIdle
  /\ EscalationIdle
  /\ ProgressIdle
  /\ RoutingIdle
  /\ CacheIdle
  /\ OrchIdle
  /\ RagIdle
  /\ CallerIdle

\* HRAgent.process (ITAgent, SecurityAgent and FinanceAgent alike): the
\* retriever answers for the department, the chain writes the content, and
\* AgentResponse(content, sources, metadata) is returned.
DepartmentProcess ==
  \E department \in HandlerDepartments, scores \in ScoreLists :
    /\ handler_response' = [called       |-> TRUE,
                            department   |-> department,
                            scores       |-> scores,
                            rag_response |-> retriever_answer(scores),
                            response     |-> AgentResponse(retriever_answer(scores).docs_retrieved)]
    /\ UNCHANGED <<merge_vars, escalation_vars, progress_response>>
    /\ UNCHANGED <<routing_vars, cache_vars, orch_vars, rag_vars, caller_vars>>

HandlersNext == DepartmentProcess

SpecHandlers == HandlersInit /\ [][HandlersNext]_vars

-----------------------------------------------------------------------------
(* ProgressAgent called on its own.  The text generator's output is a      *)
(* text with or without a fenced json block.                               *)

\* str.find(sub, start): the 0-based index of the first occurrence at or
\* after start, -1 when there is none.
find(s, sub, start) ==
  IF \E i \in (start + 1)..Len(s) : OccursAt(sub, s, i)
  THEN (CHOOSE i \in (start + 1)..Len(s) :
          /\ OccursAt(sub, s, i)
          /\ \A j \in (start + 1)..(i - 1) : ~OccursAt(sub, s, j)) - 1
  ELSE -1

\* s[a:b] for a >= 0: a negative b counts from the end.
slice(s, a, b) == SubSeq(s, a + 1, IF b < 0 THEN Len(s) + b ELSE b)

\* s[a:]
slice_from(s, a) == SubSeq(s, a + 1, Len(s))

\* The grave accent, the character of a code fence.
Grave == "grave"

JsonFence == <<Grave, Grave, Grave, "j","s","o","n">>

Fence == <<Grave, Grave, Grave>>

k_task_update == <<"t","a","s","k","_","u","p","d","a","t","e">>

w_null == <<"n","u","l","l">>

\* json.loads raised JSONDecodeError.
JSONDecodeError == [ok |-> FALSE]

JsonNull == [type |-> "null"]

RECURSIVE DigitsOf(_)
DigitsOf(s) ==
  IF s # <<>> /\ Head(s) \in DigitChars THEN <<Head(s)>> \o DigitsOf(Tail(s)) ELSE <<>>

\* The JSON decoder on the values the modelled outputs are made of: an object
\* of no or one member, an array of no or one element, an unsigned integer,
\* a string without escapes, null.  The result is the value and the text
\* left after it.
RECURSIVE ParseValue(_)
ParseValue(text) ==
  LET s == lstrip(text)
      close == find(Tail(s), <<"\"">>, 0)
      member ==
        LET t == lstrip(Tail(s))
            key_end == find(Tail(t), <<"\"">>, 0)
            after_key == lstrip(slice_from(Tail(t), key_end + 1))
            inner == ParseValue(Tail(after_key))
        IN IF t = <<>> THEN JSONDecodeError
           ELSE IF Head(t) = "}"
                THEN [ok |-> TRUE, value |-> [type |-> "object", members |-> <<>>],
                      rest |-> Tail(t)]
           ELSE IF Head(t) # "\"" \/ key_end < 0 THEN JSONDecodeError
           ELSE IF after_key = <<>> \/ Head(after_key) # ":" THEN JSONDecodeError
           ELSE IF ~inner.ok THEN JSONDecodeError
           ELSE IF lstrip(inner.rest) = <<>> \/ Head(lstrip(inner.rest)) # "}"
                THEN JSONDecodeError
           ELSE [ok    |-> TRUE,
                 value |-> [type    |-> "object",
                            members |-> [k \in {slice(Tail(t), 0, key_end)} |-> inner.value]],
                 rest  |-> Tail(lstrip(inner.rest))]
      element ==
        LET t == lstrip(Tail(s))
            inner == ParseValue(t)
        IN IF t = <<>> THEN JSONDecodeError
           ELSE IF Head(t) = "]"
                THEN [ok |-> TRUE, value |-> [type |-> "array", elements |-> <<>>],
                      rest |-> Tail(t)]
           ELSE IF ~inner.ok THEN JSONDecodeError
           ELSE IF lstrip(inner.rest) = <<>> \/ Head(lstrip(inner.rest)) # "]"
                THEN JSONDecodeError
           ELSE [ok    |-> TRUE,
                 value |-> [type |-> "array", elements |-> <<inner.value>>],
                 rest  |-> Tail(lstrip(inner.rest))]
  IN IF s = <<>> THEN JSONDecodeError
     ELSE IF Head(s) = "{" THEN member
     ELSE IF Head(s) = "[" THEN element
     ELSE IF Head(s) = "\""
          THEN IF close < 0 THEN JSONDecodeError
               ELSE [ok |-> TRUE,
                     value |-> [type |-> "string", chars |-> slice(Tail(s), 0, close)],
                     rest |-> slice_from(Tail(s), close + 1)]
     ELSE IF Head(s) \in DigitChars
          THEN [ok |-> TRUE,
                value |-> [type |-> "number", digits |-> DigitsOf(s)],
                rest |-> slice_from(s, Len(DigitsOf(s)))]
     ELSE IF OccursAt(w_null, s, 1)
          THEN [ok |-> TRUE, value |-> JsonNull, rest |-> slice_from(s, Len(w_null))]
     ELSE JSONDecodeError

\* json.loads(json_str): one value, nothing but whitespace after it.
json_loads(json_str) ==
  IF ParseValue(json_str).ok /\ lstrip(ParseValue(json_str).rest) = <<>>
  THEN ParseValue(json_str)
  ELSE JSONDecodeError

\* bool(value)
Truthy(value) ==
  CASE value.type = "null"   -> FALSE
    [] value.type = "object" -> DOMAIN value.members # {}
    [] value.type = "array"  -> value.elements # <<>>
    [] value.type = "string" -> value.chars # <<>>
    [] value.type = "number" -> \E i \in DOMAIN value.digits : value.digits[i] # "0"

\* ProgressAgent.extract_task_update: the decode error is caught, any other
\* exception leaves the function.  data.get exists on a dict only.
extract_task_update(response) ==
  IF ~Contains(JsonFence, response) THEN [raised |-> FALSE, task_update |-> JsonNull]
  ELSE LET json_start == find(response, JsonFence, 0) + 7
           json_end == find(response, Fence, json_start)
           data == json_loads(strip(slice(response, json_start, json_end)))
       IN IF ~data.ok THEN [raised |-> FALSE, task_update |-> JsonNull]
          ELSE IF data.value.type # "object"
               THEN [raised |-> TRUE, task_update |-> JsonNull]
          ELSE [raised      |-> FALSE,
                task_update |-> IF k_task_update \in DOMAIN data.value.members
                                THEN data.value.members[k_task_update]
                                ELSE JsonNull]

\* ProgressAgent.clean_response
clean_response(response) ==
  IF Contains(JsonFence, response)
  THEN LET json_start == find(response, JsonFence, 0)
           json_end == find(response, Fence, json_start + 7) + 3
       IN strip(slice(response, 0, json_start)) \o strip(slice_from(response, json_end))
  ELSE response

\* The outputs of the text generator: a prefix, and no block or a block of
\* one of the bodies, closed or left open.
OutputPrefixes == {<<>>, <<"O","k",".","\n">>}

BlockBodies ==
  {<<"{","\"","t","a","s","k","_","u","p","d","a","t","e","\"",":","{","\"","i","d","\"",":","1","}","}">>,
   <<"{","\"","t","a","s","k","_","u","p","d","a","t","e","\"",":","{","\"","i","d","\"",":","1","}">>,
   <<"[","1","]">>,
   <<"1">>,
   <<"n","u","l","l">>,
   <<"\"","x","\"">>,
   <<"{","}">>,
   <<"{","\"","n","o","t","e","\"",":","1","}">>,
   <<"o","o","p","s">>,
   <<>>,
   <<"{","\"","t","a","s","k","_","u","p","d","a","t","e","\"",":","n","u","l","l","}">>}

BlockEndings == {Fence, <<>>, <<"\n">>, Fence \o <<" ","B","y","e">>}

GeneratorOutputs ==
  OutputPrefixes
    \cup {prefix \o JsonFence \o <<"\n">> \o body \o ending :
            prefix \in OutputPrefixes, body \in BlockBodies, ending \in BlockEndings}

ProgressInit ==
  /\ progress_response = NoProgressResponse
  /\ MergeIdle
  /\ HandlerIdle
  /\ EscalationIdle
  /\ RoutingIdle
  /\ CacheIdle
  /\ OrchIdle
  /\ RagIdle
  /\ CallerIdle

\* ProgressAgent.process(state) for a user with tasks_count tasks: the chain
\* writes the output, the task update is extracted and the block removed;
\* an exception of extract_task_update leaves process.
ProgressProcess ==
  \E output \in GeneratorOutputs, tasks_count \in 0..MaxTasks :
    \E extracted \in {extract_task_update(output)} :
      /\ progress_response' =
           IF extracted.raised
           THEN [called |-> TRUE, output |-> output, tasks_count |-> tasks_count,
                 raised |-> TRUE]
           ELSE [called       |-> TRUE,
                 output       |-> output,
                 tasks_count  |-> tasks_count,
                 raised       |-> FALSE,
                 content      |-> clean_response(output),
                 task_updates |-> IF Truthy(extracted.task_update)
                                  THEN <<extracted.task_update>> ELSE <<>>]
      /\ UNCHANGED <<merge_vars, handler_response, escalation_vars>>
      /\ UNCHANGED <<routing_vars, cache_vars, orch_vars, rag_vars, caller_vars>>

ProgressNext == ProgressProcess

SpecProgress == ProgressInit /\ [][ProgressNext]_vars

-----------------------------------------------------------------------------
(* The router driven on its own *)

-----------------------------------------------------------------------------
(* The routing specification: one message, one classifier answer for it,   *)
(* and calls of the routing functions on them.                             *)

RoutingInit ==
  /\ message \in Texts(MaxWords)
  /\ model_file \in BOOLEAN
  /\ prediction \in IF model_file THEN Predictions ELSE {NoPrediction}
  /\ router_loaded = FALSE
  /\ router = FALSE
  /\ routing = NoRouting
  /\ keyword_dept = "unset"
  /\ detected = <<>>
  /\ calls = 0
  /\ CacheIdle
  /\ OrchIdle
  /\ CallerIdle
  /\ ServiceIdle
  /\ RagIdle

\* CoordinatorAgent.get_routing_decision(message)
GetRoutingDecision ==
  LET lr == load_router(router_loaded, router)
  IN /\ calls < MaxCalls
     /\ router_loaded' = lr[1]
     /\ router' = lr[2]
     /\ routing' = get_routing_decision(message, lr[2], prediction)
     /\ calls' = calls + 1
     /\ UNCHANGED <<message, prediction, model_file, keyword_dept, detected>>
     /\ UNCHANGED <<cache_vars, orch_vars, rag_vars, caller_vars, service_vars>>

\* CoordinatorAgent.check_keywords(message)
CheckKeywords ==
  /\ keyword_dept' = check_keywords(message, None)
  /\ UNCHANGED <<message, prediction, model_file, router_loaded, router,
                 routing, detected, calls>>
  /\ UNCHANGED <<cache_vars, orch_vars, rag_vars, caller_vars, service_vars>>

\* OnboardingOrchestrator._detect_multiple_departments(message)
DetectMultipleDepartments ==
  /\ detected' = DetectedDepartments[message]
  /\ UNCHANGED <<message, prediction, model_file, router_loaded, router,
                 routing, keyword_dept, calls>>
  /\ UNCHANGED <<cache_vars, orch_vars, rag_vars, caller_vars, service_vars>>

\* CoordinatorAgent.get_routing_decision on some other text, between the
\* calls on the message: what it leaves behind in the coordinator is the
\* loaded router; its decision goes to its own caller.
RouteOtherMessage ==
  LET lr == load_router(router_loaded, router)
  IN /\ ~router_loaded
     /\ router_loaded' = lr[1]
     /\ router' = lr[2]
     /\ UNCHANGED <<message, prediction, model_file, routing, keyword_dept,
                    detected, calls>>
     /\ UNCHANGED <<cache_vars, orch_vars, rag_vars, caller_vars, service_vars>>

RoutingNext ==
  \/ GetRoutingDecision
  \/ RouteOtherMessage
  \/ CheckKeywords
  \/ DetectMultipleDepartments

SpecRouting == RoutingInit /\ [][RoutingNext]_vars

-----------------------------------------------------------------------------
(* process_message, step by step, with the background cache writes *)

\* What a department agent answers: text and the sources it cites.  Only the
\* progress agent fills task_updates.
c_greeting == <<"H","i","!"," ","o","k">>

c_blank == <<" ">>

\* The users of the model, by user_id.
Users == 1..MaxUsers

\* The user whose requests the orchestrator specification follows.
FirstUser == 1

\* The progress agent's answer from the tasks and the name of a user: the
\* summary of that user's tasks.
TaskSummary(user) ==
  <<"t","a","s","k","s"," ","o","f"," ">> \o <<(<<"1","2","3">>)[user]>>

Source(dept) == [document |-> dept, section |-> "1", department |-> dept]

AgentOutputs(dept) ==
  {[department |-> dept, content |-> c_greeting, sources |-> <<Source(dept)>>,
    task_updates |-> <<>>],
   [department |-> dept, content |-> c_blank, sources |-> <<>>,
    task_updates |-> <<>>]}

ProgressOutputs(user) ==
  {[department |-> "Progress", content |-> c_greeting, sources |-> <<>>,
    task_updates |-> <<>>],
   [department |-> "Progress", content |-> TaskSummary(user), sources |-> <<>>,
    task_updates |-> <<[task_id |-> 1, new_status |-> "DONE"]>>]}

\* The answers of the agent behind a node of the graph.
NodeOutputs(department, user) ==
  IF GraphNode[department] = "progress" THEN ProgressOutputs(user)
  ELSE AgentOutputs(department)

\* asyncio.gather(*agent_tasks): the results in the order of the tasks.
gather_in_completion_order(tasks, done) ==
  [k \in DOMAIN done |-> tasks[done[k]].out]

gather(tasks, done) == [i \in DOMAIN tasks |-> tasks[i].out]

\* The valid, unexpired row of the lowercased, trimmed message, if any.
EntryFor(text) ==
  LET ids == {i \in DOMAIN cache : /\ cache[i].query_hash = strip(lower(text))
                                   /\ cache[i].is_valid
                                   /\ cache[i].expires_at > now}
  IN IF ids = {} THEN NoRow ELSE cache[CHOOSE i \in ids : TRUE]

is_multi_intent_only(departments) == Len(departments) > 1

\* is_multi_intent or should_bypass_coordinator
should_fan_out(departments) ==
  Len(departments) > 1 \/ (departments # <<>> /\ departments[1] # "General")

OrchInit ==
  /\ message = <<>>
  /\ model_file \in BOOLEAN
  /\ prediction = NoPrediction
  /\ router_loaded = FALSE
  /\ router = FALSE
  /\ routing = NoRouting
  /\ keyword_dept = "unset"
  /\ detected = <<>>
  /\ calls = 0
  /\ CacheIdle
  /\ OrchIdle
  /\ CallerIdle
  /\ ServiceIdle
  /\ RagIdle

EntryOutcomes == {"ok", "detect_language raises", "get_db raises"}

\* process_message(user_id, message) up to the cache check: detect_language,
\* get_db.
EnterProcessMessage(user, m, entry) ==
  /\ pc \in {"idle", "returned", "raised"}
  /\ requests < MaxRequests
  /\ requests' = requests + 1
  /\ user_id' = user
  /\ message' = m
  /\ pc' = IF entry = "ok" THEN "cache" ELSE "raised"
  /\ detected' = <<>>
  /\ routing' = NoRouting
  /\ handlers' = <<>>
  /\ finished' = <<>>
  /\ result' = NoResult
  /\ lookup' = NoLookup
  /\ trace' = NoTrace
  /\ UNCHANGED <<prediction, model_file, router_loaded, router, keyword_dept,
                 calls, pending, sessions, handed>>
  /\ UNCHANGED <<cache_vars, rag_vars, service_vars>>

\* The requests of one user.
ProcessMessage ==
  \E m \in RequestMessages, entry \in EntryOutcomes :
    EnterProcessMessage(FirstUser, m, entry)

\* The requests of the users, each with a message of its own choice.
ProcessMessageOfUser ==
  \E user \in Users, m \in UserMessages, entry \in EntryOutcomes :
    EnterProcessMessage(user, m, entry)

\* The cache check: get_cached_response in try / except / finally db.close().
CheckCache ==
  \E read \in {"returns", "raises"}, close \in {"returns", "raises"} :
    LET found == IF read = "returns"
                 THEN Lookup(cache, message, now, embedding_model, FALSE)
                 ELSE [row |-> 0, cache_type |-> "semantic"]
        cached == [CachedResponse(cache, found) EXCEPT !.query = message]
    IN /\ pc = "cache"
       /\ lookup' = [entry |-> EntryFor(message), read |-> read, close |-> close]
       /\ cache' = CountHit(cache, found.row)
       /\ ret' = IF read = "returns" THEN cached ELSE NoReturn
       /\ pc' = IF close = "raises" THEN "raised"
                ELSE IF found.row # 0 THEN "returned" ELSE "detect"
       /\ result' = IF close = "returns" /\ found.row # 0
                    THEN CachedResult(cached) ELSE NoResult
       /\ UNCHANGED <<now, embedding_model, last_put, fresh, invalidated>>
       /\ UNCHANGED <<requests, handlers, finished, pending, trace>>
       /\ UNCHANGED <<routing_vars, rag_vars, caller_vars, service_vars>>

\* _detect_multiple_departments and the choice of the branch; in the fan-out
\* branch one task per detected department is handed to asyncio.gather.
DetectDepartments ==
  \E outcome \in {"returns", "raises"} :
    LET departments == DetectedDepartments[message]
        fan_out == should_fan_out(departments)
    IN /\ pc = "detect"
       /\ IF outcome = "raises"
          THEN /\ pc' = "raised"
               /\ trace' = [trace EXCEPT !.detection = TRUE]
               /\ UNCHANGED <<detected, handlers>>
          ELSE /\ detected' = departments
               /\ pc' = IF fan_out THEN "fanout" ELSE "graph"
               /\ handlers' = IF fan_out
                              THEN [i \in DOMAIN departments |->
                                      [status |-> "running",
                                       department |-> departments[i],
                                       out |-> NoResult]]
                              ELSE <<>>
               /\ trace' = [trace EXCEPT !.detection = TRUE,
                                         !.started = IF fan_out THEN departments
                                                     ELSE <<>>]
       /\ UNCHANGED <<message, prediction, model_file, router_loaded, router,
                      routing, keyword_dept, calls>>
       /\ UNCHANGED <<requests, finished, result, pending, lookup>>
       /\ UNCHANGED <<cache_vars, rag_vars, caller_vars, service_vars>>

\* One task of the fan-out finishes: _process_single_agent returns.
HandlerReturns ==
  \E i \in DOMAIN handlers :
    \E out \in AgentOutputs(handlers[i].department) :
      /\ pc = "fanout"
      /\ handlers[i].status = "running"
      /\ handlers' = [handlers EXCEPT ![i].status = "done", ![i].out = out]
      /\ finished' = Append(finished, i)
      /\ UNCHANGED <<pc, requests, result, pending, lookup, trace>>
      /\ UNCHANGED <<routing_vars, cache_vars, rag_vars, caller_vars, service_vars>>

HandlerRaisesIgnored ==
  \E i \in DOMAIN handlers :
    /\ pc = "fanout"
    /\ handlers[i].status = "running"
    /\ handlers' = [handlers EXCEPT
                      ![i].status = "done",
                      ![i].out = [department |-> handlers[i].department,
                                  content |-> <<>>, sources |-> <<>>,
                                  task_updates |-> <<>>]]
    /\ finished' = Append(finished, i)
    /\ trace' = [trace EXCEPT !.failure = "handler"]
    /\ UNCHANGED <<pc, requests, result, pending, lookup>>
    /\ UNCHANGED <<routing_vars, cache_vars, rag_vars, caller_vars, service_vars>>

\* One task of the fan-out raises: gather hands the exception to
\* process_message, whose except branch returns the error response.
HandlerRaises ==
  \E i \in DOMAIN handlers :
    /\ pc = "fanout"
    /\ handlers[i].status = "running"
    /\ handlers' = [handlers EXCEPT ![i].status = "raised"]
    /\ finished' = Append(finished, i)
    /\ trace' = [trace EXCEPT !.failure = "handler"]
    /\ result' = ErrorResult
    /\ pc' = "returned"
    /\ UNCHANGED <<requests, pending, lookup>>
    /\ UNCHANGED <<routing_vars, cache_vars, rag_vars, caller_vars, service_vars>>

\* A fan-out that writes the cache itself before it returns.
FanOutCompleteCachingInline ==
  LET responses == gather(handlers, finished)
      merged == FanOutResult(detected, responses)
      w == CacheWrite(message, merged, JoinDepartments(detected))
  IN /\ pc = "fanout"
     /\ \A i \in DOMAIN handlers : handlers[i].status = "done"
     /\ result' = merged
     /\ cache' = cache_response(cache, w.query, w.response, w.sources,
                                w.department,
                                get_embedding(w.query, embedding_model, TRUE), now)
     /\ last_put' = [k \in DOMAIN last_put \cup {strip(lower(w.query))} |->
                       IF k = strip(lower(w.query)) THEN w ELSE last_put[k]]
     /\ fresh' = fresh \cup {strip(lower(w.query))}
     /\ trace' = [trace EXCEPT !.wrote = TRUE]
     /\ pc' = "returned"
     /\ UNCHANGED <<now, embedding_model, ret, invalidated>>
     /\ UNCHANGED <<requests, handlers, finished, lookup, pending>>
     /\ UNCHANGED <<routing_vars, rag_vars, caller_vars, service_vars>>

\* Every task has finished: the responses are merged, the cache write is
\* submitted and the dict is returned.
FanOutComplete ==
  LET responses == gather(handlers, finished)
      merged == FanOutResult(detected, responses)
  IN /\ pc = "fanout"
     /\ \A i \in DOMAIN handlers : handlers[i].status = "done"
     /\ result' = merged
     /\ pending' = pending \cup {CacheWrite(message, merged, JoinDepartments(detected))}
     /\ trace' = [trace EXCEPT !.wrote = TRUE]
     /\ pc' = "returned"
     /\ UNCHANGED <<requests, handlers, finished, lookup>>
     /\ UNCHANGED <<routing_vars, cache_vars, rag_vars, caller_vars, service_vars>>

\* The coordinator node of the graph.
CoordinatorNode ==
  \E p \in IF model_file THEN Predictions ELSE {NoPrediction},
     outcome \in {"returns", "raises"} :
    LET lr == load_router(router_loaded, router)
    IN /\ pc = "graph"
       /\ prediction' = p
       /\ router_loaded' = lr[1]
       /\ router' = lr[2]
       /\ IF outcome = "raises"
          THEN /\ trace' = [trace EXCEPT !.coordinator = TRUE, !.failure = "graph"]
               /\ result' = ErrorResult
               /\ pc' = "returned"
               /\ UNCHANGED routing
          ELSE /\ trace' = [trace EXCEPT !.coordinator = TRUE]
               /\ routing' = get_routing_decision(message, lr[2], p)
               /\ pc' = "agent"
               /\ UNCHANGED result
       /\ UNCHANGED <<message, model_file, keyword_dept, detected, calls>>
       /\ UNCHANGED <<requests, handlers, finished, pending, lookup>>
       /\ UNCHANGED <<cache_vars, rag_vars, caller_vars, service_vars>>

\* The agent node the decision leads to, the finalize node, and the end of
\* the graph branch: the cache write is submitted and the dict is returned.
AgentNode ==
  /\ pc = "agent"
  /\ \E outcome \in {"returns", "raises"} :
      \E out \in NodeOutputs(routing.final_department, user_id) :
      LET answer == GraphResult(routing, GraphNode[routing.final_department], out)
      IN /\ pc' = "returned"
         /\ IF outcome = "raises"
            THEN /\ trace' = [trace EXCEPT
                                !.started = <<routing.final_department>>,
                                !.failure = "graph"]
                 /\ result' = ErrorResult
                 /\ UNCHANGED pending
            ELSE /\ trace' = [trace EXCEPT
                                !.started = <<routing.final_department>>,
                                !.wrote = TRUE]
                 /\ result' = answer
                 /\ pending' = pending \cup
                      {CacheWrite(message, answer, routing.final_department)}
         /\ UNCHANGED <<requests, handlers, finished, lookup>>
         /\ UNCHANGED <<routing_vars, cache_vars, rag_vars, caller_vars, service_vars>>

\* cache_in_background: a submitted write runs in its thread; a failure is
\* logged and the write is dropped.
CacheInBackground ==
  \E w \in pending, outcome \in {"returns", "raises"} :
    /\ pending' = pending \ {w}
    /\ IF outcome = "raises"
       THEN UNCHANGED <<cache, last_put, fresh>>
       ELSE /\ cache' = cache_response(cache, w.query, w.response, w.sources,
                                       w.department,
                                       get_embedding(w.query, embedding_model, TRUE),
                                       now)
            /\ last_put' = [k \in DOMAIN last_put \cup {strip(lower(w.query))} |->
                              IF k = strip(lower(w.query)) THEN w ELSE last_put[k]]
            /\ fresh' = fresh \cup {strip(lower(w.query))}
    /\ UNCHANGED <<now, embedding_model, ret, invalidated>>
    /\ UNCHANGED <<pc, requests, handlers, finished, result, lookup, trace>>
    /\ UNCHANGED <<routing_vars, rag_vars, caller_vars, service_vars>>

Next ==
  \/ ProcessMessage
  \/ CheckCache
  \/ DetectDepartments
  \/ HandlerReturns
  \/ HandlerRaises
  \/ FanOutComplete
  \/ CoordinatorNode
  \/ AgentNode
  \/ CacheInBackground
  \/ Tick

Spec == OrchInit /\ [][Next]_vars

\* The orchestrator serving several users.
UsersNext ==
  \/ ProcessMessageOfUser
  \/ CheckCache
  \/ DetectDepartments
  \/ HandlerReturns
  \/ HandlerRaises
  \/ FanOutComplete
  \/ CoordinatorNode
  \/ AgentNode
  \/ CacheInBackground
  \/ Tick

SpecUsers == OrchInit /\ [][UsersNext]_vars

-----------------------------------------------------------------------------
(* VectorStoreService.query, BM25Index.search and HybridSearchEngine.search *)
(* for one query.  The distance of a chunk to the query and its BM25 score  *)
(* are given by `relevance`; a semantic score 1 / (1 + d) is held in units  *)
(* of 1 / SemanticUnit, which the min-max normalisation cancels.            *)

\* The distances of the model: 1 / (1 + d) is 1, 1/2 and 1/4.
Distances == {0, 1, 3}

SemanticUnit == 4

\* The BM25 scores of the model.
Bm25Scores == {0, 2}

\* The n nearest of the chunks idx, nearest first, the earlier stored first
\* among equally distant ones.
RECURSIVE Nearest(_, _, _)
Nearest(idx, dist, n) ==
  IF n = 0 \/ idx = {} THEN <<>>
  ELSE LET i == CHOOSE a \in idx :
                  \A b \in idx : dist[a] < dist[b] \/ (dist[a] = dist[b] /\ a <= b)
       IN <<i>> \o Nearest(idx \ {i}, dist, n - 1)

\* VectorStoreService.query(query_text, n_results, where): the documents,
\* metadatas and distances of the n_results nearest chunks that pass `where`.
vectorstore_query(stored, rel, n_results, where) ==
  LET idx   == {i \in DOMAIN stored :
                  where = None \/ stored[i].department = where}
      dist  == [i \in DOMAIN stored |-> rel[stored[i].text].distance]
      order == Nearest(idx, dist, n_results)
  IN [i \in DOMAIN order |->
        [document   |-> stored[order[i]].text,
         department |-> stored[order[i]].department,
         distance   |-> dist[order[i]]]]

\* np.argsort(scores)[::-1][:n]: the n best scored, the later indexed first
\* among equal scores.
RECURSIVE TopScored(_, _, _)
TopScored(idx, scores, n) ==
  IF n = 0 \/ idx = {} THEN <<>>
  ELSE LET i == CHOOSE a \in idx :
                  \A b \in idx :
                    scores[a] > scores[b] \/ (scores[a] = scores[b] /\ a >= b)
       IN <<i>> \o TopScored(idx \ {i}, scores, n - 1)

\* s[:n]
Take(s, n) == SubSeq(s, 1, IF n < Len(s) THEN n ELSE Len(s))

\* BM25Index.search(query, n_results, department_filter): (doc_index, score)
\* pairs, doc_index counted from 1.
bm25_search(index, rel, n_results, department_filter) ==
  IF index = <<>> THEN <<>>
  ELSE LET scores == [i \in DOMAIN index |->
                        IF department_filter # None
                           /\ index[i].department # department_filter
                        THEN 0
                        ELSE rel[index[i].document].bm25]
           top_indices == TopScored(DOMAIN index, scores, n_results * 2)
           IsPositive(i) == scores[i] > 0
           found == SelectSeq(top_indices, IsPositive)
       IN Take([i \in DOMAIN found |-> <<found[i], scores[found[i]]>>],
               n_results)

\* 1 / (1 + d), in units of 1 / SemanticUnit.
semantic_score(d) == SemanticUnit \div (1 + d)

\* The keys of doc_scores in insertion order: the semantic documents, then
\* the BM25 documents not among them.
RECURSIVE DocKeys(_, _)
DocKeys(docs, keys) ==
  IF docs = <<>> THEN keys
  ELSE DocKeys(Tail(docs),
               IF Head(docs) \in Range(keys) THEN keys
               ELSE Append(keys, Head(docs)))

\* The last entry of the list for the document, or the default.
LastFor(entries, doc, default) ==
  LET at == {i \in DOMAIN entries : entries[i].document = doc}
  IN IF at = {} THEN default
     ELSE entries[CHOOSE i \in at : \A j \in at : j <= i]

MinOf(s) == CHOOSE x \in Range(s) : \A y \in Range(s) : x <= y
MaxOf(s) == CHOOSE x \in Range(s) : \A y \in Range(s) : y <= x

\* _normalize_scores: the numerator of each normalised score and their common
\* denominator.
normalize_scores(scores) ==
  IF scores = <<>> THEN [num |-> <<>>, den |-> 1]
  ELSE IF MaxOf(scores) = MinOf(scores)
       THEN [num |-> [i \in DOMAIN scores |-> 1], den |-> 1]
  ELSE [num |-> [i \in DOMAIN scores |-> scores[i] - MinOf(scores)],
        den |-> MaxOf(scores) - MinOf(scores)]

\* semantic_weight and bm25_weight, in tenths.
semantic_weight == 7
bm25_weight == 3

\* The results left in fusion order.
KeepFusionOrder(results) == results

\* list.sort(key=combined_score, reverse=True): stable.
RECURSIVE SortByCombinedScore(_)
SortByCombinedScore(results) ==
  IF results = <<>> THEN <<>>
  ELSE LET i == CHOOSE a \in DOMAIN results :
                  \A b \in DOMAIN results :
                    \/ results[a].combined_score > results[b].combined_score
                    \/ /\ results[a].combined_score = results[b].combined_score
                       /\ a <= b
       IN <<results[i]>>
            \o SortByCombinedScore(SubSeq(results, 1, i - 1)
                                     \o SubSeq(results, i + 1, Len(results)))

\* Steps 1 to 3 of HybridSearchEngine.search when both searches return: the
\* results list of the response.  combined_score is held in units of
\* 1 / (10 * den_semantic * den_bm25), the same for all results of a response.
fuse(semantic_results, bm25_results, index, n_results) ==
  LET semantic == [i \in DOMAIN semantic_results |->
                     [document   |-> semantic_results[i].document,
                      department |-> semantic_results[i].department,
                      score      |-> semantic_score(semantic_results[i].distance)]]
      bm25     == [i \in DOMAIN bm25_results |->
                     [document   |-> index[bm25_results[i][1]].document,
                      department |-> index[bm25_results[i][1]].department,
                      score      |-> bm25_results[i][2]]]
      keys     == DocKeys([i \in DOMAIN bm25 |-> bm25[i].document],
                          DocKeys([i \in DOMAIN semantic |-> semantic[i].document],
                                  <<>>))
      none     == [document |-> <<>>, department |-> None, score |-> 0]
      all_semantic  == [i \in DOMAIN keys |-> LastFor(semantic, keys[i], none).score]
      all_bm25      == [i \in DOMAIN keys |-> LastFor(bm25, keys[i], none).score]
      norm_semantic == normalize_scores(all_semantic)
      norm_bm25     == normalize_scores(all_bm25)
      results  == [i \in DOMAIN keys |->
                     [document       |-> keys[i],
                      department     |-> LastFor(bm25, keys[i],
                                                 LastFor(semantic, keys[i], none)).department,
                      semantic_score |-> all_semantic[i],
                      bm25_score     |-> all_bm25[i],
                      combined_score |-> semantic_weight * norm_semantic.num[i]
                                             * norm_bm25.den
                                         + bm25_weight * norm_bm25.num[i]
                                             * norm_semantic.den,
                      rank           |-> 0]]
      sorted   == SortByCombinedScore(results)
      ranked   == [i \in DOMAIN sorted |->
                     IF i <= n_results THEN [sorted[i] EXCEPT !.rank = i]
                     ELSE sorted[i]]
  IN Take(ranked, n_results)

\* _get_cache_key
get_cache_key(query, department, n_results) ==
  <<lower(strip(query)), IF department = None THEN "all" ELSE department,
    n_results>>

\* HybridSearchEngine.search(query, n_results, department_filter): the
\* response, or the raise of the search that raises, and the cache after it.
search(cached, stored, index, rel, query, n_results, department_filter, semantic_raises, bm25_raises) ==
  LET cache_key == get_cache_key(query, department_filter, n_results)
  IN IF cache_key \in DOMAIN cached
     THEN [raised   |-> FALSE,
           response |-> [cached[cache_key] EXCEPT !.cache_hit = TRUE],
           cache    |-> [cached EXCEPT ![cache_key].cache_hit = TRUE]]
     ELSE IF semantic_raises \/ bm25_raises
     THEN [raised |-> TRUE, response |-> NoSearchResponse, cache |-> cached]
     ELSE LET fresh_response ==
                [results   |-> fuse(vectorstore_query(stored, rel, n_results * 2,
                                                      department_filter),
                                    bm25_search(index, rel, n_results * 2,
                                                department_filter),
                                    index, n_results),
                 cache_hit |-> FALSE,
                 k         |-> n_results,
                 raised    |-> FALSE]
          IN [raised   |-> FALSE,
              response |-> fresh_response,
              cache    |-> [key \in DOMAIN cached \cup {cache_key} |->
                              IF key = cache_key THEN fresh_response
                              ELSE cached[key]]]

\* RAGRetriever.retrieve(query, department_filter, top_k) with hybrid search
\* enabled: the documents returned, or the raise, and the engine's cache.
retrieve(cached, stored, index, rel, query, department_filter, top_k, semantic_raises, bm25_raises) ==
  LET hybrid    == search(cached, stored, index, rel, query, top_k,
                          department_filter, semantic_raises, bm25_raises)
      documents == IF hybrid.raised THEN <<>>
                   ELSE [i \in DOMAIN hybrid.response.results |->
                           hybrid.response.results[i].document]
      filtered  == vectorstore_query(stored, rel, top_k, department_filter)
      general   == vectorstore_query(stored, rel, top_k, None)
      fallback  == IF filtered = <<>> /\ department_filter # None THEN general
                   ELSE filtered
  IN IF documents # <<>>
     THEN [raised |-> FALSE, documents |-> documents, hybrid |-> hybrid]
     ELSE IF semantic_raises
     THEN [raised |-> TRUE, documents |-> <<>>, hybrid |-> hybrid]
     ELSE [raised    |-> FALSE,
           documents |-> [i \in DOMAIN fallback |-> fallback[i].document],
           hybrid    |-> hybrid]

-----------------------------------------------------------------------------
(* The ingestion driven on one policy document *)

\* The pieces policy documents are made of.
DocPieces ==
  {<<"a">>, <<"a", "a", "a">>, <<" ">>, <<NewLine>>, <<NewLine, NewLine>>,
   <<"#", " ">>}

\* The contents of up to n pieces.
RECURSIVE Contents(_)
Contents(n) ==
  IF n = 0 THEN {<<>>}
  ELSE LET shorter == Contents(n - 1)
       IN shorter \cup {c \o p : c \in shorter, p \in DocPieces}

PolicyStems == {"hr_policies", "handbook"}

\* The other file of the policies directory.
OtherPolicy ==
  [stem |-> "it_policies", content |-> <<"#", " ", "a", NewLine, "a">>]

\* self.policies_dir.glob("*.md")
PolicyFiles == <<document, OtherPolicy>>

IngestionInit ==
  /\ document \in [stem : PolicyStems, content : Contents(MaxPieces)]
  /\ collection = <<>>
  /\ bm25_index = <<>>
  /\ relevance = <<>>
  /\ search_cache = <<>>
  /\ search_response = NoSearchResponse
  /\ retrieval = NoRetrieval
  /\ chunks = <<>>
  /\ ingestion = NoIngestion
  /\ RoutingIdle
  /\ CacheIdle
  /\ OrchIdle
  /\ CallerIdle
  /\ ServiceIdle

\* DocumentIngestion.chunk_text(content, metadata) on the loaded document
ChunkText ==
  /\ chunks' = chunk_text(document.content, load_document(document))
  /\ UNCHANGED <<collection, bm25_index, relevance, search_cache,
                 search_response, retrieval, document, ingestion>>
  /\ UNCHANGED <<routing_vars, cache_vars, orch_vars, caller_vars, service_vars>>

\* DocumentIngestion.ingest_document(file_path): the chunks are written to the
\* vector store, or the embedding or the write raises and nothing is written.
IngestDocument ==
  \E outcome \in {"added", "raises"} :
    /\ Len(collection) < MaxStored
    /\ collection' = IF outcome = "added"
                     THEN ingest_document(collection, document)
                     ELSE collection
    /\ ingestion' = [run   |-> "ingest_document",
                     ended |-> IF outcome = "added" THEN "completed"
                               ELSE "raised"]
    /\ UNCHANGED <<bm25_index, relevance, search_cache, search_response,
                   retrieval, document, chunks>>
    /\ UNCHANGED <<routing_vars, cache_vars, orch_vars, caller_vars, service_vars>>

\* DocumentIngestion.ingest_all_policies(): the files are ingested one after
\* the other; a raise at file n + 1 leaves the first n files written.
IngestAllPolicies ==
  \E n \in 0..Len(PolicyFiles) :
    /\ Len(collection) < MaxStored
    /\ collection' = ingest_all_policies(collection, SubSeq(PolicyFiles, 1, n))
    /\ ingestion' = [run   |-> "ingest_all_policies",
                     ended |-> IF n = Len(PolicyFiles) THEN "completed"
                               ELSE "raised"]
    /\ UNCHANGED <<bm25_index, relevance, search_cache, search_response,
                   retrieval, document, chunks>>
    /\ UNCHANGED <<routing_vars, cache_vars, orch_vars, caller_vars, service_vars>>

\* DocumentIngestion.reset_and_reingest(): delete_collection, then
\* ingest_all_policies on the new collection.
ResetAndReingest ==
  \E n \in 0..Len(PolicyFiles) :
    /\ collection # <<>>
    /\ collection' = ingest_all_policies(<<>>, SubSeq(PolicyFiles, 1, n))
    /\ ingestion' = [run   |-> "reset_and_reingest",
                     ended |-> IF n = Len(PolicyFiles) THEN "completed"
                               ELSE "raised"]
    /\ UNCHANGED <<bm25_index, relevance, search_cache, search_response,
                   retrieval, document, chunks>>
    /\ UNCHANGED <<routing_vars, cache_vars, orch_vars, caller_vars, service_vars>>

IngestionNext ==
  \/ ChunkText
  \/ IngestDocument
  \/ IngestAllPolicies
  \/ ResetAndReingest

SpecIngestion == IngestionInit /\ [][IngestionNext]_vars

-----------------------------------------------------------------------------
(* The hybrid search engine and the retriever driven on one query *)

\* A chunk of the corpus, as chunk_text makes it.
CorpusChunk(text, department, i) ==
  [text        |-> text,
   chunk_id    |-> <<"corpus.md", i>>,
   department  |-> department,
   section     |-> <<>>,
   chunk_index |-> i]

\* The chunks stored for the retrieval.
Corpus ==
  <<CorpusChunk(<<"a">>, "HR", 0), CorpusChunk(<<"b">>, "HR", 1),
    CorpusChunk(<<"c">>, "IT", 2)>>

CorpusTexts == {Corpus[i].text : i \in DOMAIN Corpus}

\* BM25Index.add_documents(documents, metadatas) on an empty index.
IndexOf(stored) ==
  [i \in DOMAIN stored |->
     [document |-> stored[i].text, department |-> stored[i].department]]

\* The values of n_results and of department_filter.
ResultCounts == 1..MaxResults

Filters == {None, "HR"}

RetrievalInit ==
  /\ collection = Corpus
  /\ bm25_index \in {<<>>, IndexOf(Corpus)}
  /\ relevance \in [CorpusTexts ->
                      [distance : Distances,
                       bm25 : IF bm25_index = <<>> THEN {0} ELSE Bm25Scores]]
  /\ search_cache = <<>>
  /\ search_response = NoSearchResponse
  /\ retrieval = NoRetrieval
  /\ document = NoDocument
  /\ chunks = <<>>
  /\ ingestion = NoIngestion
  /\ RoutingIdle
  /\ CacheIdle
  /\ OrchIdle
  /\ CallerIdle
  /\ ServiceIdle

\* The entries of the engine's cache are bounded in the model.
MayCache(query, department_filter, n_results) ==
  \/ get_cache_key(query, department_filter, n_results) \in DOMAIN search_cache
  \/ Cardinality(DOMAIN search_cache) < MaxCached

\* The object a search hands to its caller.  On a miss it is the new
\* response, which is also the object stored in the cache; on a hit it is the
\* cached object, on which cache_hit is set: the caller of the miss that
\* stored it holds the same object and reads what the entry holds.
hand_over(held, cached, cache_key, raised, response, cache_after) ==
  IF raised THEN held
  ELSE IF cache_key \in DOMAIN cached
       THEN IF held.shared /\ held.key = cache_key
            THEN [held EXCEPT !.response = cache_after[cache_key]]
            ELSE held
  ELSE [key |-> cache_key, shared |-> TRUE, given |-> response, response |-> response]

\* HybridSearchEngine.search(query, n_results, department_filter) called on
\* the engine, each of the two searches returning or raising.
Search ==
  \E n_results \in ResultCounts, department_filter \in Filters,
     semantic_raises \in BOOLEAN, bm25_raises \in BOOLEAN :
    \E out \in {search(search_cache, collection, bm25_index, relevance, q_pto,
                        n_results, department_filter, semantic_raises,
                        bm25_raises)} :
       /\ MayCache(q_pto, department_filter, n_results)
       /\ search_cache' = out.cache
       /\ search_response' = [out.response EXCEPT !.raised = out.raised,
                                                  !.k = n_results]
       /\ retrieval' = NoRetrieval
       /\ UNCHANGED <<collection, bm25_index, relevance, document, chunks,
                      ingestion>>
       /\ handed' = hand_over(handed, search_cache,
                              get_cache_key(q_pto, department_filter, n_results),
                              out.raised, out.response, out.cache)
       /\ UNCHANGED <<routing_vars, cache_vars, orch_vars, user_id, sessions, service_vars>>

\* RAGRetriever.retrieve(query, department_filter, top_k)
Retrieve ==
  \E top_k \in ResultCounts, department_filter \in Filters,
     semantic_raises \in BOOLEAN, bm25_raises \in BOOLEAN :
    \E out \in {retrieve(search_cache, collection, bm25_index, relevance,
                          q_pto, department_filter, top_k, semantic_raises,
                          bm25_raises)} :
       /\ MayCache(q_pto, department_filter, top_k)
       /\ search_cache' = out.hybrid.cache
       /\ search_response' = [out.hybrid.response EXCEPT
                                !.raised = out.hybrid.raised, !.k = top_k]
       /\ retrieval' = [documents         |-> out.documents,
                        hybrid            |-> ~out.hybrid.raised,
                        raised            |-> out.raised,
                        k                 |-> top_k,
                        department_filter |-> department_filter,
                        semantic_raises   |-> semantic_raises,
                        bm25_raises       |-> bm25_raises,
                        cache_hit         |-> out.hybrid.response.cache_hit]
       /\ UNCHANGED <<collection, bm25_index, relevance, document, chunks,
                      ingestion>>
       /\ handed' = hand_over(handed, search_cache,
                              get_cache_key(q_pto, department_filter, top_k),
                              out.hybrid.raised, out.hybrid.response, out.hybrid.cache)
       /\ UNCHANGED <<routing_vars, cache_vars, orch_vars, user_id, sessions, service_vars>>

\* The TTL of an entry of the engine's cache runs out.
Expire ==
  \E key \in DOMAIN search_cache :
    /\ search_cache' = [other \in DOMAIN search_cache \ {key} |->
                          search_cache[other]]
    /\ UNCHANGED <<collection, bm25_index, relevance, search_response,
                   retrieval, document, chunks, ingestion>>
    /\ handed' = IF handed.key = key THEN [handed EXCEPT !.shared = FALSE] ELSE handed
    /\ UNCHANGED <<routing_vars, cache_vars, orch_vars, user_id, sessions, service_vars>>

RetrievalNext == Search \/ Retrieve \/ Expire

SpecRetrieval == RetrievalInit /\ [][RetrievalNext]_vars

-----------------------------------------------------------------------------
(* Claims on process_message *)

\* C1 as stated: every process_message call ends by returning a dict, no
\* exception reaches the caller, whatever the collaborators do.
C1_NoExceptionPropagates == pc # "raised"

Failed == trace.failure # "none"

\* C2: when a department handler or the graph raises, the call returns the
\* error response (the apology, no sources, no task updates, an error string,
\* total_time_ms 0) and submits no cache write, also when other handlers of
\* the fan-out had finished; a cache write is only ever submitted by a call
\* in which nothing raised.
C2_FailureGivesErrorResponse ==
  /\ [](Failed =>
          /\ pc = "returned"
          /\ result.response = ApologyText
          /\ result.sources = <<>>
          /\ result.task_updates = <<>>
          /\ "error" \in DOMAIN result
          /\ result.total_time_ms = 0
          /\ ~trace.wrote)
  /\ [][pending' \subseteq pending \/ (trace'.wrote /\ ~Failed')]_vars

\* A handler raised after another handler of the same call had returned an
\* answer with a source.
C2_Witness ==
  /\ pc = "returned"
  /\ trace.failure = "handler"
  /\ \E i \in DOMAIN handlers :
       handlers[i].status = "done" /\ handlers[i].out.sources # <<>>

LookedUp == lookup.read # "none"

ReturnsEntry ==
  /\ pc = "returned"
  /\ result.response = lookup.entry.response
  /\ result.sources = lookup.entry.sources
  /\ "is_cached" \in DOMAIN result.routing
  /\ result.routing.is_cached
  /\ result.routing.cache_type = "exact"
  /\ trace = NoTrace

\* C3 as stated: a valid, unexpired entry for the normalized message at the
\* time of the lookup is what the call returns, with nothing else run.
C3_ValidEntryIsReturned ==
  (LookedUp /\ lookup.entry # NoRow) => ReturnsEntry

\* C3: a valid, unexpired entry for the normalized message at the time of the
\* lookup is what the call returns (is_cached, cache_type "exact", no
\* detection, coordinator, handler or cache write), provided
\* get_cached_response and db.close() return.
C3_ValidEntryIsReturnedUnlessLookupRaises ==
  (/\ LookedUp
   /\ lookup.entry # NoRow
   /\ lookup.read = "returns"
   /\ lookup.close = "returns") => ReturnsEntry

\* "PTO" is answered from the entry written for a message of the same
\* normalized text, after some time has passed.
C3_Witness ==
  /\ pc = "returned"
  /\ message = m_PTO
  /\ lookup.entry # NoRow
  /\ lookup.read = "returns"
  /\ lookup.close = "returns"
  /\ now > 0
  /\ requests = MaxRequests

HasFinalDepartment ==
  pc = "returned" /\ "final_department" \in DOMAIN result.routing

\* C6 as stated: the final_department of a returned response is one of HR, IT,
\* Security, Finance, Progress, General.
C6_FinalDepartmentIsOneDepartment ==
  HasFinalDepartment => result.routing.final_department \in Departments

FanOutDepartments == {"HR", "IT", "Security", "Finance"}

\* The duplicate-free lists of fan-out departments, written with ", ".
RECURSIVE CommaList(_)
CommaList(ds) ==
  IF Len(ds) = 1 THEN ds[1] ELSE ds[1] \o ", " \o CommaList(Tail(ds))

DepartmentLists ==
  {CommaList(ds) :
     ds \in {l \in UNION {[1..n -> FanOutDepartments] : n \in 1..3} :
               \A i, j \in DOMAIN l : l[i] = l[j] => i = j}}

\* C6: the final_department of a returned response is one of the six
\* departments on the graph path; on the fan-out path it is the list of the
\* detected departments joined by ", "; on the cached path it is the
\* department stored with the entry, one of these.
C6_FinalDepartmentIsDepartmentOrList ==
  HasFinalDepartment =>
    LET final == result.routing.final_department
    IN /\ final \in Departments \cup DepartmentLists
       /\ "departments" \in DOMAIN result.routing
            => /\ result.routing.departments = detected
               /\ final = CommaList(detected)
       /\ ("is_multi_intent" \in DOMAIN result.routing
             /\ ~result.routing.is_multi_intent) => final \in Departments
       /\ "is_cached" \in DOMAIN result.routing => final = lookup.entry.department

\* A cached response whose final_department names two departments.
C6_Witness ==
  /\ HasFinalDepartment
  /\ "is_cached" \in DOMAIN result.routing
  /\ result.routing.final_department = "IT, HR"

NonGeneral(ds) == \E i \in DOMAIN ds : ds[i] # "General"

\* C7: on a cache miss the coordinator runs only when detection gave
\* ["General"]; when it gave a department other than General the coordinator
\* does not run and one handler per detected department does, also for a
\* single department.
C7_CoordinatorOnlyForGeneral ==
  /\ trace.coordinator => detected = <<"General">>
  /\ (pc \in {"graph", "agent"}) => detected = <<"General">>
  /\ NonGeneral(detected) =>
       /\ ~trace.coordinator
       /\ routing = NoRouting
       /\ trace.started = detected
       /\ DOMAIN handlers = DOMAIN detected
       /\ \A i \in DOMAIN detected : handlers[i].department = detected[i]
       /\ \A i, j \in DOMAIN detected : detected[i] = detected[j] => i = j

\* One department detected, answered by its handler through the fan-out.
C7_Witness ==
  /\ pc = "returned"
  /\ detected = <<"HR">>
  /\ trace.started = <<"HR">>
  /\ "is_multi_intent" \in DOMAIN result.routing
  /\ result.routing.is_multi_intent

FanOutReturned ==
  /\ pc = "returned"
  /\ handlers # <<>>
  /\ \A i \in DOMAIN handlers : handlers[i].status = "done"

Pos(d) == CHOOSE i \in DOMAIN detected : detected[i] = d

HeaderAt(d) ==
  {k \in DOMAIN result.response : OccursAt(SectionHeader(d), result.response, k)}

\* C8: whatever the order in which the handlers finish, the sections of the
\* merged text, the sources and the task updates follow the order of the
\* detected departments, and the response is the one computed from the
\* handlers' answers taken in that order.
C8_MergeFollowsDetectedOrder ==
  FanOutReturned =>
    LET answers == [i \in DOMAIN handlers |-> handlers[i].out]
    IN /\ result = FanOutResult(detected, answers)
       /\ \A i, j \in DOMAIN result.sources :
            i < j => Pos(result.sources[i].department) <= Pos(result.sources[j].department)
       /\ \A a, b \in DOMAIN detected :
            (a < b /\ HeaderAt(detected[a]) # {} /\ HeaderAt(detected[b]) # {})
              => \A k \in HeaderAt(detected[a]), l \in HeaderAt(detected[b]) : k < l
       /\ Len(result.sources)
            = Cardinality({i \in DOMAIN handlers : handlers[i].out.sources # <<>>})
       /\ result.task_updates = <<>>

\* Three handlers finished in an order other than the detected one and each
\* contributed a section and a source.
C8_Witness ==
  /\ FanOutReturned
  /\ Len(detected) = 3
  /\ finished = <<3, 1, 2>>
  /\ Len(result.sources) = 3
  /\ \A i \in DOMAIN detected : HeaderAt(detected[i]) # {}

-----------------------------------------------------------------------------
(* Claims on the cache specification *)

IsHit == ret.cache_type \in {"exact", "semantic"}

RowsOfHash(k) == {i \in DOMAIN cache : cache[i].query_hash = k}

\* C4: an exact-tier hit for a query q returns the response and sources of the
\* most recent cache_response whose lowercased, trimmed query equals that of
\* q, and the entry it was read from is valid and unexpired at that time.
C4_ExactHitReturnsLastWrite ==
  ret.cache_type = "exact" =>
    LET k == strip(lower(ret.query))
    IN /\ k \in DOMAIN last_put
       /\ ret.response = last_put[k].response
       /\ ret.sources = last_put[k].sources
       /\ ret.hit_key = k
       /\ \E i \in RowsOfHash(k) : cache[i].is_valid /\ cache[i].expires_at > now
       /\ \A i \in RowsOfHash(k) : /\ cache[i].response = ret.response
                                   /\ cache[i].sources = ret.sources

\* An exact hit through normalization, some time after the start, for a query
\* whose department was invalidated before it was written again.
C4_Witness ==
  /\ ret.cache_type = "exact"
  /\ ret.query = q_PTO_padded
  /\ ret.response = <<"n","o">>
  /\ now > 0
  /\ ret.department \in invalidated

\* C5 as stated: once invalidate_cache(dept) has returned, no
\* get_cached_response returns an entry whose department is dept.
C5_NoHitAfterInvalidate == IsHit => ret.department \notin invalidated

\* C5: once invalidate_cache(dept) has returned, get_cached_response, through
\* either tier, returns an entry whose department is dept only if a
\* cache_response call wrote that entry after the invalidation.
C5_NoStaleHitAfterInvalidate ==
  (IsHit /\ ret.department \in invalidated) => ret.hit_key \in fresh

\* A semantic hit on a department that was invalidated, while another entry of
\* that department is still marked invalid.
C5_Witness ==
  /\ ret.cache_type = "semantic"
  /\ ret.department \in invalidated
  /\ \E i \in DOMAIN cache : ~cache[i].is_valid /\ cache[i].department = ret.department

-----------------------------------------------------------------------------
(* Claims on the routing specification *)

\* Some keyword of the set occurs in the message as a whole word.
HasWholeWord(keywords, text) ==
  LET text_lower == lower(text)
  IN \E kw \in keywords : SearchWord(kw, text_lower)

\* C9: department keyword detection matches Latin-script keywords only at
\* word boundaries: a department is reported for a message, by the
\* coordinator's check_keywords and by the orchestrator's
\* _detect_multiple_departments, only if one of its keywords occurs in the
\* message as a whole word, never because a keyword is part of a longer word
\* ("pto" inside "laptop").
C9_WordBoundaryDetection ==
  /\ keyword_dept \notin {"unset", None}
       => HasWholeWord(DEPARTMENT_KEYWORDS[keyword_dept], message)
  /\ \A i \in DOMAIN detected :
       detected[i] # "General"
         => HasWholeWord(dept_keywords[detected[i]]
                           \cup DEPARTMENT_INDICATORS[detected[i]], message)

\* The condition of the "strong progress" rule of get_routing_decision.
ProgressRuleApplies ==
  /\ check_keywords(message, routing.predicted_department) = "Progress"
  /\ CoordinatorFacts[message].strong

\* The condition of the greeting rule of get_routing_decision.
GreetingRuleApplies == CoordinatorFacts[message].greeting

RoutingRulesOnly ==
  routing # NoRouting /\ ~ProgressRuleApplies /\ ~GreetingRuleApplies

MatchCount(d) == Cardinality(CoordinatorFacts[message].matches[d])

\* C10: when neither the progress rule nor the greeting rule applies, the
\* decision keeps the classifier's department, not overridden, if that
\* department has a keyword match; otherwise, with confidence below 0.6 and
\* some keyword match, it takes a department with the most matched keywords
\* and is marked overridden; otherwise it keeps the classifier's department,
\* not overridden.
C10_OverrideRules ==
  RoutingRulesOnly =>
    LET p       == routing.predicted_department
        kwdepts == Range(KeywordDeptOrder)
        matched == {d \in kwdepts : MatchCount(d) > 0}
    IN IF p \in matched
       THEN routing.final_department = p /\ ~routing.was_overridden
       ELSE IF routing.prediction_confidence < CONFIDENCE_THRESHOLD /\ matched # {}
       THEN /\ routing.final_department \in matched
            /\ \A d \in matched : MatchCount(d) <= MatchCount(routing.final_department)
            /\ routing.was_overridden
       ELSE routing.final_department = p /\ ~routing.was_overridden

\* A low-confidence prediction without keyword match was overridden by the
\* department with strictly more matched keywords than another matched one.
C10_Witness ==
  /\ RoutingRulesOnly
  /\ routing.was_overridden
  /\ routing.prediction_confidence < CONFIDENCE_THRESHOLD
  /\ \E d \in Range(KeywordDeptOrder) :
       /\ MatchCount(d) > 0
       /\ MatchCount(d) < MatchCount(routing.final_department)

-----------------------------------------------------------------------------
(* Claims on get_routing_decision across calls *)

\* C11: when the classifier artifact is absent, the first call and every later
\* call of get_routing_decision return a decision (none raises) that reports
\* the predicted department "General" with confidence 0 and whose final
\* department comes from the rules alone: "Progress" for a greeting,
\* otherwise a department with the most matched keywords, otherwise "General".
C11_MissingModelFallsBackToRules ==
  (~model_file /\ calls > 0) =>
    LET matched == {d \in Range(KeywordDeptOrder) : MatchCount(d) > 0}
    IN /\ routing # NoRouting
       /\ routing.predicted_department = "General"
       /\ routing.prediction_confidence = 0
       /\ IF GreetingRuleApplies THEN routing.final_department = "Progress"
          ELSE IF matched = {} THEN routing.final_department = "General"
          ELSE /\ routing.final_department \in matched
               /\ \A d \in matched :
                    MatchCount(d) <= MatchCount(routing.final_department)

\* A later call without the artifact: the router object is loaded, its
\* predict raises, and the keywords alone sent the message to IT.
C11_Witness ==
  /\ ~model_file
  /\ calls = MaxCalls
  /\ router_loaded /\ router
  /\ prediction.raises
  /\ routing.final_department = "IT"
  /\ routing.was_overridden

\* C19: get_routing_decision is deterministic: a later call on the same text
\* with the same classifier artifact returns the decision the earlier call
\* returned (the five fields and the probabilities), whatever calls on other
\* texts were made before or between them.
C19_RoutingDecisionDeterministic ==
  [][(calls > 0 /\ calls' > calls) => routing' = routing]_vars

\* Two calls on a text the classifier answers with confidence, the rules
\* overriding it: both returned the same overridden decision.
C19_Witness ==
  /\ calls = MaxCalls
  /\ model_file /\ ~prediction.raises
  /\ router_loaded /\ router
  /\ routing.predicted_department # "General"
  /\ routing.final_department # routing.predicted_department
  /\ routing.was_overridden

\* C23: a message that contains "my task", "my progress", "completed",
\* "finished" or "mark" is sent to "Progress" by get_routing_decision,
\* whatever the classifier predicted and whatever other department keywords
\* the message contains.
C23_StrongProgressKeywordForcesProgress ==
  (routing # NoRouting /\ CoordinatorFacts[message].strong) =>
    routing.final_department = "Progress"

\* The routing block of a returned dict, where it has one.
HasRoutingBlock ==
  /\ pc = "returned"
  /\ "routing" \in DOMAIN result
  /\ result.routing # <<>>

\* C28: in the decision of get_routing_decision and in the routing block of
\* every dict process_message returns, was_overridden is true exactly when
\* final_department differs from predicted_department.
C28_OverriddenIffFinalDiffers ==
  /\ routing # NoRouting =>
       (routing.was_overridden <=>
          routing.final_department # routing.predicted_department)
  /\ HasRoutingBlock =>
       (result.routing.was_overridden <=>
          result.routing.final_department # result.routing.predicted_department)

\* C28: was_overridden is true exactly when final_department differs from
\* predicted_department in the decision of get_routing_decision and in the
\* routing block of the cached and the single-agent paths; on the fan-out
\* path was_overridden is false, predicted_department is the first detected
\* department and final_department is the list of the detected departments
\* joined by ", ", which differs from it when several were detected.
C28_OverriddenIffFinalDiffersButFanOut ==
  /\ routing # NoRouting =>
       (routing.was_overridden <=>
          routing.final_department # routing.predicted_department)
  /\ HasRoutingBlock =>
       IF "departments" \in DOMAIN result.routing
       THEN /\ ~result.routing.was_overridden
            /\ result.routing.predicted_department = detected[1]
            /\ result.routing.final_department = CommaList(detected)
            /\ (result.routing.final_department
                  # result.routing.predicted_department) <=> Len(detected) > 1
       ELSE result.routing.was_overridden <=>
              result.routing.final_department
                # result.routing.predicted_department

\* The single-agent path returned a decision in which the progress or the
\* greeting rule overrode the department the classifier predicted.
C28_Witness ==
  /\ HasRoutingBlock
  /\ "is_multi_intent" \in DOMAIN result.routing
  /\ ~result.routing.is_multi_intent
  /\ result.routing.was_overridden
  /\ result.routing.predicted_department \in ClassifierClasses \ {"General"}
  /\ result.routing.final_department = "Progress"

-----------------------------------------------------------------------------
(* EscalationService: the sensitive topics and the department contacts *)

\* The alternatives of each pattern, each between word boundaries; \s+ is
\* held as one space.
SENSITIVE_TOPICS ==
  <<{ <<"h","a","r","a","s","s">>,
      <<"d","i","s","c","r","i","m","i","n","a","t">>,
      <<"b","u","l","l","y">>,
      <<"h","o","s","t","i","l","e">>,
      <<"t","h","r","e","a","t">>,
      <<"l","e","g","a","l">>,
      <<"l","a","w","s","u","i","t">>,
      <<"t","e","r","m","i","n","a","t">>,
      <<"f","i","r","e">>,
      <<"r","e","s","i","g","n">> },
    { <<"m","e","n","t","a","l"," ","h","e","a","l","t","h">>,
      <<"d","e","p","r","e","s","s">>,
      <<"a","n","x","i","e","t">>,
      <<"s","t","r","e","s","s">>,
      <<"b","u","r","n","o","u","t">>,
      <<"s","u","i","c","i","d","e">> },
    { <<"c","o","m","p","l","a","i","n","t">>,
      <<"g","r","i","e","v","a","n","c","e">>,
      <<"w","h","i","s","t","l","e">>,
      <<"r","e","p","o","r","t"," ","m","i","s","c","o","n","d","u","c","t">> },
    { <<"c","o","n","f","i","d","e","n","t","i","a","l">>,
      <<"p","r","o","p","r","i","e","t","a","r","y">>,
      <<"t","r","a","d","e"," ","s","e","c","r","e","t">>,
      <<"c","l","a","s","s","i","f","i","e","d">> } >>

\* re.search(pattern, query, re.IGNORECASE) for some pattern of the list.
matches_sensitive_topic(query) ==
  \E k \in DOMAIN SENSITIVE_TOPICS :
    \E alternative \in SENSITIVE_TOPICS[k] : SearchWord(alternative, lower(query))

DEPARTMENT_CONTACTS ==
  [HR       |-> [email |-> "hr@company.com", phone |-> "ext. 2000",
                 name |-> "HR Support Team"],
   IT       |-> [email |-> "it-helpdesk@company.com", phone |-> "ext. 3000",
                 name |-> "IT Help Desk"],
   Security |-> [email |-> "security@company.com", phone |-> "ext. 4000",
                 name |-> "Security Team"],
   Finance  |-> [email |-> "finance@company.com", phone |-> "ext. 5000",
                 name |-> "Finance Department"],
   General  |-> [email |-> "support@company.com", phone |-> "ext. 1000",
                 name |-> "General Support"]]

\* DEPARTMENT_CONTACTS.get(department, DEPARTMENT_CONTACTS["General"])
contact_info(department) ==
  IF department \in DOMAIN DEPARTMENT_CONTACTS
  THEN DEPARTMENT_CONTACTS[department] ELSE DEPARTMENT_CONTACTS["General"]

-----------------------------------------------------------------------------
(* EscalationService called on its own.  Confidences are in hundredths.    *)

\* EscalationPriority: a str-valued Enum, its members are their values.
LOW == <<"l","o","w">>

MEDIUM == <<"m","e","d","i","u","m">>

HIGH == <<"h","i","g","h">>

URGENT == <<"u","r","g","e","n","t">>

\* The code point order of the lower-case letters.
ord(c) == CHOOSE i \in DOMAIN LowerCase : LowerCase[i] = c

\* str.__gt__: a > b in the lexicographic order of the code points.
RECURSIVE str_gt(_, _)
str_gt(a, b) ==
  IF a = <<>> THEN FALSE
  ELSE IF b = <<>> THEN TRUE
  ELSE IF Head(a) # Head(b) THEN ord(Head(a)) > ord(Head(b))
  ELSE str_gt(Tail(a), Tail(b))

\* max(priority, other) on members of a str Enum: the comparison is the one
\* of their values, and the first argument is kept unless the second is
\* greater.
priority_max(priority, other) == IF str_gt(other, priority) THEN other ELSE priority

confidence_threshold == 50

no_docs_threshold == 0

repeated_query_threshold == 2

MaxHistory == 10

\* set(s.split())
RECURSIVE WordSet(_, _)
WordSet(s, word) ==
  IF s = <<>> THEN (IF word = <<>> THEN {} ELSE {word})
  ELSE IF IsSpace(Head(s))
       THEN (IF word = <<>> THEN {} ELSE {word}) \cup WordSet(Tail(s), <<>>)
       ELSE WordSet(Tail(s), Append(word, Head(s)))

\* _similarity(s1, s2) as a fraction: 0.0 when a text has no word.
similarity(s1, s2) ==
  CHOOSE sim \in {IF words1 = {} \/ words2 = {}
                  THEN [num |-> 0, den |-> 1]
                  ELSE [num |-> Cardinality(words1 \cap words2),
                        den |-> Cardinality(words1 \cup words2)] :
                    words1 \in {WordSet(s1, <<>>)}, words2 \in {WordSet(s2, <<>>)}} : TRUE

\* self._similarity(q, query_lower) > 0.8
IsSimilar(q, query_lower) ==
  \E sim \in {similarity(q, query_lower)} : 10 * sim.num > 8 * sim.den

\* Every user's tracked queries count.
is_repeated_query_of_any_user(history, user, query) ==
  \E query_lower \in {strip(lower(query))} :
    Cardinality({pair \in {<<u, i>> : u \in DOMAIN history, i \in 1..MaxHistory} :
                   /\ pair[2] \in DOMAIN history[pair[1]]
                   /\ IsSimilar(history[pair[1]][pair[2]], query_lower)})
      >= repeated_query_threshold

\* _is_repeated_query(user_id, query)
is_repeated_query(history, user, query) ==
  /\ user \in DOMAIN history
  /\ \E query_lower \in {strip(lower(query))} :
       Cardinality({i \in DOMAIN history[user] : IsSimilar(history[user][i], query_lower)})
         >= repeated_query_threshold

\* list[-10:]
LastOf(list, n) == IF Len(list) > n THEN SubSeq(list, Len(list) - n + 1, Len(list)) ELSE list

\* _track_query(user_id, query)
track_query(history, user, query) ==
  [u \in DOMAIN history \cup {user} |->
     IF u = user
     THEN LastOf(Append(IF user \in DOMAIN history THEN history[user] ELSE <<>>,
                        strip(lower(query))), MaxHistory)
     ELSE history[u]]

\* _generate_escalation_message: the text of the reason, filled with the
\* contact of the department (and the confidence); never empty.
generate_escalation_message(reason, department, confidence) ==
  [template |-> reason, contact |-> contact_info(department), confidence |-> confidence]

\* EscalationService.evaluate.  answer_confidence is <<>> for None; the
\* optional fields of the decision are <<>> for None.
evaluate(history, query, user, routing_confidence, documents_found, department, answer_confidence, pii_detected, user_requested) ==
  LET effective_confidence ==
        IF answer_confidence # <<>> THEN answer_confidence[1] ELSE routing_confidence
      low == effective_confidence < confidence_threshold
      no_docs == documents_found <= no_docs_threshold
      sensitive == matches_sensitive_topic(query)
      repeated == is_repeated_query(history, user, query)
      p1 == IF user_requested THEN MEDIUM ELSE LOW
      p2 == IF low /\ effective_confidence < 30 THEN priority_max(p1, MEDIUM) ELSE p1
      p3 == IF no_docs THEN priority_max(p2, MEDIUM) ELSE p2
      p4 == IF sensitive THEN HIGH ELSE p3
      p5 == IF pii_detected THEN priority_max(p4, MEDIUM) ELSE p4
      p6 == IF repeated THEN priority_max(p5, MEDIUM) ELSE p5
      reasons == (IF user_requested THEN <<"user_request">> ELSE <<>>)
                 \o (IF low THEN <<"low_confidence">> ELSE <<>>)
                 \o (IF no_docs THEN <<"no_documents_found">> ELSE <<>>)
                 \o (IF sensitive THEN <<"sensitive_topic">> ELSE <<>>)
                 \o (IF pii_detected THEN <<"pii_detected">> ELSE <<>>)
                 \o (IF repeated THEN <<"repeated_query">> ELSE <<>>)
      should_escalate == Len(reasons) > 0
  IN [history            |-> track_query(history, user, query),
      should_escalate    |-> should_escalate,
      reasons            |-> reasons,
      reason             |-> IF should_escalate THEN reasons[1] ELSE None,
      priority           |-> p6,
      confidence_score   |-> effective_confidence,
      escalation_message |->
        IF should_escalate
        THEN <<generate_escalation_message(reasons[1], department, effective_confidence)>>
        ELSE <<>>,
      contact_info       |-> IF should_escalate THEN <<contact_info(department)>> ELSE <<>>]

q_pto_twice == <<"p","t","o"," ","P","T","O">>

EscalationQueries == {q_pto, q_pto_twice, m_complaint}

\* routing_confidence and answer_confidence (<<>>: None)
EscalationConfidences == {<<20, <<>> >>, <<40, <<>> >>, <<90, <<>> >>, <<20, <<90>> >>}

\* No query tracked yet; the first user has asked "pto" once; the first user
\* has asked "pto" twice and "vpn" eight times since.
InitialHistories ==
  {<<>>,
   [u \in {FirstUser} |-> <<q_pto>>],
   [u \in {FirstUser} |-> [i \in 1..MaxHistory |-> IF i <= 2 THEN q_pto ELSE q_vpn]]}

EscalationInit ==
  /\ query_history \in InitialHistories
  /\ escalation = NoDecision
  /\ MergeIdle
  /\ HandlerIdle
  /\ ProgressIdle
  /\ RoutingIdle
  /\ CacheIdle
  /\ OrchIdle
  /\ RagIdle
  /\ CallerIdle

Evaluations == IF escalation.called THEN escalation.calls ELSE 0

\* EscalationService.evaluate(query, user_id, routing_confidence,
\* documents_found, department, answer_confidence, pii_detected,
\* user_requested)
Evaluate ==
  /\ Evaluations < MaxEvaluations
  /\ \E query \in EscalationQueries, user \in Users,
        confidences \in EscalationConfidences,
        documents_found \in {0, 2}, department \in {"HR"},
        pii_detected \in BOOLEAN, user_requested \in BOOLEAN :
       \E out \in {evaluate(query_history, query, user, confidences[1],
                             documents_found, department, confidences[2],
                             pii_detected, user_requested)} :
         /\ query_history' = out.history
         /\ escalation' = [called             |-> TRUE,
                           calls              |-> Evaluations + 1,
                           query              |-> query,
                           user               |-> user,
                           routing_confidence |-> confidences[1],
                           answer_confidence  |-> confidences[2],
                           documents_found    |-> documents_found,
                           department         |-> department,
                           pii_detected       |-> pii_detected,
                           user_requested     |-> user_requested,
                           history_before     |-> query_history,
                           decision           |-> [out EXCEPT !.history = <<>>]]
         /\ UNCHANGED <<merge_vars, handler_response, progress_response>>
         /\ UNCHANGED <<routing_vars, cache_vars, orch_vars, rag_vars, caller_vars>>

EscalationNext == Evaluate

SpecEscalation == EscalationInit /\ [][EscalationNext]_vars

\* A returned dict carries an escalation directive: a message and the
\* contact information of the department the request was resolved to.
HasEscalationDirective(r) ==
  /\ "escalation" \in DOMAIN r
  /\ r.escalation.message # <<>>
  /\ "routing" \in DOMAIN r
  /\ r.routing # <<>>
  /\ r.escalation.contact_info = contact_info(r.routing.final_department)

\* C16: the dict process_message returns for a message that matches the
\* sensitive topics carries an escalation directive with a message and the
\* contact information of the resolved department (stated here for the
\* answers other than the error response).
C16_SensitiveMessageEscalated ==
  (/\ pc = "returned"
   /\ "error" \notin DOMAIN result
   /\ matches_sensitive_topic(message)) =>
    HasEscalationDirective(result)

-----------------------------------------------------------------------------
(* Claims on the cleanup of the cache table *)

\* C22: a cleanup_expired run removes the entries invalidate_cache has
\* soft-marked, also those whose TTL has not elapsed: no row with
\* is_valid = False is left in the table when it returns.
C22_CleanupRemovesInvalidated ==
  [][CleanupExpired => \A i \in DOMAIN cache' : cache'[i].is_valid]_vars

-----------------------------------------------------------------------------
(* Claims on _combine_multi_agent_responses *)

\* The section of response i: the header of its department and its content
\* trimmed, the greeting removed where `stripped`.
SectionOf(i, stripped) ==
  SectionHeader(agent_responses[i].department)
    \o strip(IF stripped THEN StripGreeting(agent_responses[i].content)
             ELSE agent_responses[i].content)

\* The sections of the responses ids, in list order.
RECURSIVE SectionsIn(_, _)
SectionsIn(ids, first) ==
  IF ids = {} THEN <<>>
  ELSE <<SectionOf(First(ids), First(ids) # first)>>
         \o SectionsIn(ids \ {First(ids)}, first)

FirstWithContent ==
  First({i \in DOMAIN agent_responses : strip(agent_responses[i].content) # <<>>})

\* The responses that give a section: the first one with content, and those
\* after it that have content left without their greeting.
GivesSection ==
  {i \in DOMAIN agent_responses :
     /\ FirstWithContent # 0
     /\ \/ i = FirstWithContent
        \/ /\ i > FirstWithContent
           /\ strip(StripGreeting(agent_responses[i].content)) # <<>>}

-----------------------------------------------------------------------------
(* Claims on concurrent get_cached_response calls *)

\* The calls that hit row i.
HitsOn(i) == {s \in DOMAIN sessions : sessions[s].row = i}

\* C17: when the concurrent get_cached_response calls have all completed,
\* the hit_count of the entry has grown by the number of calls that hit it
\* (from 0, the count of a new entry), in every interleaving.
C17_NoHitCountLost ==
  (sessions # <<>> /\ \A s \in DOMAIN sessions : sessions[s].at = "returned") =>
    \A i \in DOMAIN cache : cache[i].hit_count = Cardinality(HitsOn(i))

-----------------------------------------------------------------------------
(* Claims on the responses HybridSearchEngine.search hands out *)

\* C30: the response a search returned on a cache miss is not modified by
\* later searches: its caller still reads the cache_hit flag (false) and the
\* results it was given, also after a later search hit the same key.
C30_HandedResponseUnchanged ==
  handed # NoHanded => handed.response = handed.given

-----------------------------------------------------------------------------
(* Claims on ProgressAgent.process *)

\* The output of the last call has a json block that is closed and holds an
\* object whose task_update member is an object.
WellFormedTaskUpdateBlock ==
  LET json_start == find(progress_response.output, JsonFence, 0) + 7
      json_end == find(progress_response.output, Fence, json_start)
      data == json_loads(strip(slice(progress_response.output, json_start, json_end)))
  IN /\ json_end >= 0
     /\ data.ok
     /\ data.value.type = "object"
     /\ k_task_update \in DOMAIN data.value.members
     /\ data.value.members[k_task_update].type = "object"

\* C26: when the generator's output has a json block that is not a
\* well-formed task_update object (text that does not parse, a block that is
\* not closed, JSON that is not an object), the Progress handler raises
\* nothing and returns its answer with an empty task_updates list.
C26_MalformedTaskUpdateDropped ==
  (/\ progress_response.called
   /\ Contains(JsonFence, progress_response.output)
   /\ ~WellFormedTaskUpdateBlock) =>
    /\ ~progress_response.raised
    /\ progress_response.task_updates = <<>>

-----------------------------------------------------------------------------
(* Claims on EscalationService.evaluate *)

\* The confidence the last evaluate call decided on.
EffectiveConfidence ==
  IF escalation.answer_confidence # <<>>
  THEN escalation.answer_confidence[1] ELSE escalation.routing_confidence

\* The queries tracked for the user of the last call when it was made.
OwnHistory ==
  IF escalation.user \in DOMAIN escalation.history_before
  THEN escalation.history_before[escalation.user] ELSE <<>>

\* The tracked queries of the user that are near-duplicates of the query.
NearDuplicates ==
  {i \in DOMAIN OwnHistory : IsSimilar(OwnHistory[i], strip(lower(escalation.query)))}

\* C25: evaluate returns should_escalate = true exactly when the effective
\* confidence is below 0.5, or no document was found, or the query matches a
\* sensitive topic, or PII was detected, or the user asked for escalation,
\* or at least 2 of the (at most 10) queries tracked for the same user have
\* a word-set Jaccard similarity above 0.8 with the query; the decision
\* carries a message and the contact information exactly when
\* should_escalate is true.
C25_EscalatesIffTriggered ==
  escalation.called =>
    /\ escalation.decision.should_escalate <=>
         \/ EffectiveConfidence < 50
         \/ escalation.documents_found = 0
         \/ matches_sensitive_topic(escalation.query)
         \/ escalation.pii_detected
         \/ escalation.user_requested
         \/ Cardinality(NearDuplicates) >= 2
    /\ Len(OwnHistory) <= 10
    /\ (escalation.decision.escalation_message # <<>>) <=>
         escalation.decision.should_escalate
    /\ (escalation.decision.contact_info # <<>>) <=>
         escalation.decision.should_escalate

\* Reached: a call escalated for the repetition alone, another user's
\* queries being tracked as well.
C25_Witness ==
  /\ escalation.called
  /\ escalation.decision.reasons = <<"repeated_query">>
  /\ escalation.decision.escalation_message # <<>>
  /\ Cardinality(DOMAIN query_history) > 1

\* C29: the priority evaluate returns is the highest of the priorities its
\* triggered reasons imply (LOW < MEDIUM < HIGH < URGENT): HIGH when the
\* query matches a sensitive topic, also with PII or a repeated query;
\* else MEDIUM for a user request, a confidence below 0.3, no documents, PII
\* or a repeated query; else LOW.
C29_PriorityIsHighestImplied ==
  escalation.called =>
    escalation.decision.priority =
      IF matches_sensitive_topic(escalation.query) THEN HIGH
      ELSE IF \/ escalation.user_requested
              \/ EffectiveConfidence < 30
              \/ escalation.documents_found = 0
              \/ escalation.pii_detected
              \/ Cardinality(NearDuplicates) >= 2
           THEN MEDIUM
           ELSE LOW

-----------------------------------------------------------------------------
(* Claims on the department handlers *)

\* C24: the AgentResponse a department handler returns carries the
\* confidence level and score of the request's retrieval: "none" and 0 when
\* no document was retrieved, else "high", "medium" or "low" by the 0.70 and
\* 0.40 thresholds on 0.5 * top + 0.3 * avg + 0.2 * min(1, n_docs / 2).
C24_HandlerCarriesRetrievalConfidence ==
  handler_response.called =>
    /\ handler_response.response.confidence =
         calculate_confidence(handler_response.scores).confidence
    /\ handler_response.response.confidence_score =
         calculate_confidence(handler_response.scores).confidence_score

-----------------------------------------------------------------------------
(* Claims on concurrent cache_response calls *)

\* The calls made for the normalized query of hash k.
WritersOf(k) ==
  {s \in DOMAIN sessions : /\ sessions[s].at # "begin"
                           /\ compute_hash(sessions[s].query) = k}

\* C21: in every interleaving of concurrent cache_response calls, no call
\* raises, and when the calls have all completed the table holds exactly one
\* entry for the hash of each query written, with the response of one of
\* the calls made for it.
C21_ConcurrentWritesLeaveOneEntry ==
  /\ \A s \in DOMAIN sessions : sessions[s].at # "raised"
  /\ (sessions # <<>> /\ \A s \in DOMAIN sessions : sessions[s].at = "returned") =>
       \A s \in DOMAIN sessions :
         LET k == compute_hash(sessions[s].query)
         IN /\ Cardinality({i \in DOMAIN cache : cache[i].query_hash = k}) = 1
            /\ \E i \in DOMAIN cache, w \in WritersOf(k) :
                 /\ cache[i].query_hash = k
                 /\ cache[i].response = sessions[w].write.response

-----------------------------------------------------------------------------
(* Claims on the background cache write of process_message *)

\* The row written for a normalized text (cache_response keeps one per hash).
RowOfKey(k) == cache[CHOOSE i \in DOMAIN cache : cache[i].query_hash = k]

\* The step in which a call does its cache lookup.
LookupStep == pc = "cache" /\ pc' # "cache"

\* A call that was not answered from the cache returns its answer with the
\* write handed to a background worker: the table is as it was.
WriteSubmittedAtReturn ==
  (pc # "returned" /\ pc' = "returned" /\ trace'.wrote) =>
    /\ cache' = cache
    /\ \E w \in pending' : /\ w.query = message
                            /\ w.response = result'.response
                            /\ w.sources = result'.sources

\* A background write that changes the table leaves the row of its text
\* with the written answer, valid for cache_ttl_hours from the commit.
CommitStoresWrite ==
  \A w \in pending \ pending' :
    cache' # cache =>
      \E i \in DOMAIN cache' :
        /\ cache'[i].query_hash = compute_hash(w.query)
        /\ cache'[i].response = w.response
        /\ cache'[i].sources = w.sources
        /\ cache'[i].is_valid
        /\ cache'[i].expires_at = now + cache_ttl_hours
        /\ last_put'[compute_hash(w.query)] = w

\* The lookup found no committed, unexpired write for the text: the call
\* goes on to the detection of the full pipeline.
MissGoesToPipeline == pc' = "detect" /\ result' = NoResult

\* A write for the text of the message has committed and has not expired.
CommittedAndLive ==
  /\ compute_hash(message) \in DOMAIN last_put
  /\ RowOfKey(compute_hash(message)).expires_at > now

\* The call is answered from the cache with the committed answer.
AnsweredFromCommit ==
  /\ pc' = "returned"
  /\ result'.agent = "cache"
  /\ result'.response = last_put[compute_hash(message)].response
  /\ result'.sources = last_put[compute_hash(message)].sources
  /\ trace' = NoTrace

\* C18 as stated: the cache write of a successful non-cached call runs in the
\* background; a lookup before its commit is a miss answered by the full
\* pipeline, and every lookup after its commit and before expiry is answered
\* from the cache.
C18_BackgroundWriteWindow ==
  [][/\ WriteSubmittedAtReturn
     /\ CommitStoresWrite
     /\ (LookupStep /\ EntryFor(message) = NoRow) => MissGoesToPipeline
     /\ (LookupStep /\ CommittedAndLive) => AnsweredFromCommit]_vars

\* C18: the cache write of a successful non-cached call runs in the
\* background; a lookup before its commit is a miss that leads to the full
\* pipeline, and every lookup after its commit and before expiry is answered
\* from the cache with the committed answer, provided get_cached_response and
\* db.close() return.
C18_BackgroundWriteWindowUnlessLookupRaises ==
  [][/\ WriteSubmittedAtReturn
     /\ CommitStoresWrite
     /\ (LookupStep /\ EntryFor(message) = NoRow /\ lookup'.close = "returns")
          => MissGoesToPipeline
     /\ (LookupStep /\ CommittedAndLive
           /\ lookup'.read = "returns" /\ lookup'.close = "returns")
          => AnsweredFromCommit]_vars

\* The second call on a text looked the cache up while the write of the
\* first was still with its worker, was answered by the pipeline, and both
\* writes are now waiting.
C18_WitnessBeforeCommit ==
  /\ requests = MaxRequests
  /\ pc = "returned"
  /\ trace.wrote
  /\ lookup.entry = NoRow /\ lookup.read = "returns"
  /\ cache = <<>>
  /\ \E w1, w2 \in pending :
       /\ w1 # w2
       /\ compute_hash(w1.query) = compute_hash(message)
       /\ compute_hash(w2.query) = compute_hash(message)

-----------------------------------------------------------------------------
(* Claims on the requests of several users *)

\* C20: an answer generated from one user's tasks and profile is returned by
\* process_message to that user only; what a user is answered does not come
\* from an earlier request of another user.
C20_NoAnswerOfAnotherUser ==
  (pc = "returned" /\ "response" \in DOMAIN result) =>
    \A user \in Users : result.response = TaskSummary(user) => user = user_id

-----------------------------------------------------------------------------
(* Claims on the ingestion *)

StoredTexts == {collection[i].text : i \in DOMAIN collection}

IndexedTexts == {bm25_index[i].document : i \in DOMAIN bm25_index}

\* C14: when an ingestion run has completed, the BM25 index holds exactly the
\* chunks that are in the vector store collection.
C14_Bm25IndexHoldsIngestedChunks ==
  ingestion.ended = "completed" => IndexedTexts = StoredTexts

\* C15: every chunk returned by chunk_text has a text of at most chunk_size
\* characters.
C15_ChunksWithinChunkSize ==
  \A i \in DOMAIN chunks : Len(chunks[i].text) <= chunk_size

-----------------------------------------------------------------------------
(* Claims on the retrieval *)

\* The documents of the semantic search alone, as retrieve asks for them.
SemanticAlone(top_k, department_filter) ==
  LET filtered == vectorstore_query(collection, relevance, top_k, department_filter)
      found    == IF filtered = <<>> THEN vectorstore_query(collection, relevance, top_k, None)
                  ELSE filtered
  IN [i \in DOMAIN found |-> found[i].document]

\* The documents of the BM25 search alone.
Bm25Alone(top_k, department_filter) ==
  LET found == bm25_search(bm25_index, relevance, top_k, department_filter)
  IN [i \in DOMAIN found |-> bm25_index[found[i][1]].document]

\* A retrieve call that ran the searches (its response not from the cache).
Retrieved == retrieval # NoRetrieval /\ ~retrieval.cache_hit

\* C12: a retrieval in which the BM25 search raises returns the documents of
\* the semantic search alone; one in which the semantic search raises returns
\* those of the BM25 search alone; one in which both raise returns no
\* document; and none of them raises.
C12_RetrievalSurvivesSearchFailure ==
  Retrieved =>
    /\ (retrieval.semantic_raises \/ retrieval.bm25_raises) => ~retrieval.raised
    /\ (retrieval.bm25_raises /\ ~retrieval.semantic_raises)
         => retrieval.documents
              = SemanticAlone(retrieval.k, retrieval.department_filter)
    /\ (retrieval.semantic_raises /\ ~retrieval.bm25_raises)
         => retrieval.documents
              = Bm25Alone(retrieval.k, retrieval.department_filter)
    /\ (retrieval.semantic_raises /\ retrieval.bm25_raises)
         => retrieval.documents = <<>>

\* A response of search: at most k results, ranked 1, 2, ... in list order,
\* with combined scores that do not increase.
WellRanked(r) ==
  /\ Len(r.results) <= r.k
  /\ \A i \in DOMAIN r.results : r.results[i].rank = i
  /\ \A i, j \in DOMAIN r.results :
       i < j => r.results[i].combined_score >= r.results[j].combined_score

\* C13: every response of search, computed or served from the cache, and every
\* response held in the cache, has at most k results, ranks 1..len(results) in
\* list order and non-increasing combined scores.
C13_ResultsRankedByCombinedScore ==
  /\ (search_response # NoSearchResponse /\ ~search_response.raised)
       => WellRanked(search_response)
  /\ \A key \in DOMAIN search_cache :
       search_cache[key].k = key[3] /\ WellRanked(search_cache[key])

\* A response served from the cache with two results of different combined
\* scores, the second of them found by the BM25 search and the first not.
C13_Witness ==
  /\ search_response.cache_hit
  /\ Len(search_response.results) = 2
  /\ search_response.results[1].combined_score
       > search_response.results[2].combined_score
  /\ search_response.results[1].bm25_score = 0
  /\ search_response.results[2].bm25_score > 0

====
